---- MODULE Spec2Model ----
(***************************************************************************)
(* Model of the jurigen DAG persistence engine: the In-Memory, File and    *)
(* Hybrid repositories (backend/internal/port) over the DAG value type     *)
(* (internal/dag).                                                         *)
(*                                                                         *)
(* uuid.UUID values are modelled as positive integers; 0 stands for        *)
(* uuid.Nil / a nil *dag.DAG.  A Go map is a function whose DOMAIN is the  *)
(* set of keys present.  Update transforms are drawn from a small family   *)
(* of pure functions of the graph they receive.                            *)
(***************************************************************************)
EXTENDS Integers, Sequences, FiniteSets, TLC

\* ---------------------------------------------------------------- bounds
NumDags == 2
NumNodes == 1
NumTitles == 2
NumGoroutines == 2
GraphNodes == 3
GraphAnswers == 2
FaultNodes == 2
WalkNodes == 2
MaxPath == 3

DagIds == 1..NumDags
Goroutines == 1..NumGoroutines
NodeIds == 1..NumNodes
Titles == 1..NumTitles

VARIABLES
    dags,          \* InMemoryDAGRepository.dags : id -> DAG
    files,         \* the directory of FileDAGRepository : file name (id) -> document
    writeThrough,  \* HybridDAGRepository.writeThrough
    initialized,   \* Initialize has returned nil on this HybridDAGRepository
    ioFailed,      \* some file-system call has failed so far
    last,          \* the last repository call and what it returned
    created        \* history: the identities Hybrid.Create stored with write-through
                   \* on and Hybrid.Delete has not removed since

VARIABLES
    mu,            \* InMemoryDAGRepository.mu: the goroutine holding the write lock, 0 if free
    goroutines,    \* the goroutines inside InMemoryDAGRepository.Update: position and locals
    before         \* history: the store when the concurrent calls were issued

concVars == <<mu, goroutines, before>>

VARIABLES
    graph,         \* the *dag.DAG argument of ValidateDAG
    report,        \* ValidateDAG's ValidationResult, as built so far
    vpc            \* the statement ValidateDAG is about to execute

valVars == <<graph, report, vpc>>

VARIABLES
    impl,          \* which DAG.Walk runs: "backend/internal/dag" or "internal/dag"
    walkStart,     \* the nodeId argument of Walk
    walkNode,      \* currentNodeId
    walkPath,      \* path, the answers appended so far
    asked,         \* history: how many times fnAnswer was called
    selected,      \* history: what the last call of fnAnswer returned
    wstate,        \* "AtNode" inside the loop, "Terminal" / "Error" once Walk returned
    werr           \* the error Walk returned

walkVars == <<impl, walkStart, walkNode, walkPath, asked, selected, wstate, werr>>

\* the state outside the repositories
outside == <<concVars, valVars, walkVars>>

vars == <<dags, files, writeThrough, initialized, ioFailed, last, created, outside>>

\* ------------------------------------------------------------ Go map helpers
Put(m, k, v) == [x \in (DOMAIN m) \cup {k} |-> IF x = k THEN v ELSE m[x]]

Remove(m, k) == [x \in (DOMAIN m) \ {k} |-> m[x]]

EmptyMap == [x \in {} |-> 0]

\* ------------------------------------------------------------ DAG values
Node(id) == [Id |-> id, Question |-> "q", Answers |-> <<>>]

NodeMaps == UNION {[S -> {Node(n) : n \in NodeIds}] : S \in SUBSET NodeIds}

\* NewDAG: a graph with the given identity and title and an empty node map
NewDAG(id, title) == [Id |-> id, Title |-> title, Nodes |-> EmptyMap]

\* a nil *dag.DAG
NilDAG == [Id |-> 0, Title |-> 0, Nodes |-> EmptyMap]

\* the graphs a caller hands to Create
InputDAGs == {[Id |-> i, Title |-> t, Nodes |-> ns] :
                 i \in DagIds, t \in Titles, ns \in {m \in NodeMaps : \A k \in DOMAIN m : m[k].Id = k}}

\* ------------------------------------------------------------ documents
\* the content of a file that does not parse as a DAG document
Corrupt == [ok |-> FALSE, id |-> 0, title |-> 0, nodes |-> <<>>]

\* orders in which a Go map of nodes can be iterated
RECURSIVE Orders(_)
Orders(S) == IF S = {} THEN {<<>>}
             ELSE UNION {{<<k>> \o o : o \in Orders(S \ {k})} : k \in S}

\* DAG.MarshalJSON: the node map flattened to an array, in iteration order ord
MarshalJSON(d, ord) ==
    [ok |-> TRUE, id |-> d.Id, title |-> d.Title,
     nodes |-> [i \in 1..Len(ord) |-> d.Nodes[ord[i]]]]

\* DAG.UnmarshalJSON: the array reshaped into a map keyed by each node's own id
RECURSIVE NodesFromArray(_, _)
NodesFromArray(arr, acc) ==
    IF arr = <<>> THEN acc
    ELSE NodesFromArray(Tail(arr), Put(acc, Head(arr).Id, Head(arr)))

UnmarshalJSON(doc) ==
    [Id |-> doc.id, Title |-> doc.title, Nodes |-> NodesFromArray(doc.nodes, EmptyMap)]

\* the documents MarshalJSON can produce for d
Marshalled(d) == {MarshalJSON(d, o) : o \in Orders(DOMAIN d.Nodes)}

\* ------------------------------------------------------------ update transforms
\* fnUpdate values: pure functions of the graph they are given
Fn(kind, n, d) == [kind |-> kind, n |-> n, dag |-> d]

Transforms ==
    {Fn("Identity", 0, NilDAG), Fn("Fail", 0, NilDAG)}
    \cup {Fn("SetTitle", t, NilDAG) : t \in Titles}
    \cup {Fn("AddNode", k, NilDAG) : k \in NodeIds}
    \cup {Fn("ChangeId", i, NilDAG) : i \in DagIds}

\* fnUpdate(d): failed is the non-nil error of the transform
Apply(fn, d) ==
    CASE fn.kind = "Identity" -> [failed |-> FALSE, dag |-> d]
      [] fn.kind = "Fail"     -> [failed |-> TRUE, dag |-> NilDAG]
      [] fn.kind = "SetTitle" -> [failed |-> FALSE, dag |-> [d EXCEPT !.Title = fn.n]]
      [] fn.kind = "AddNode"  -> [failed |-> FALSE,
                                  dag |-> [d EXCEPT !.Nodes = Put(d.Nodes, fn.n, Node(fn.n))]]
      [] fn.kind = "ChangeId" -> [failed |-> FALSE, dag |-> [d EXCEPT !.Id = fn.n]]
      [] fn.kind = "Replace"  -> [failed |-> FALSE, dag |-> fn.dag]

\* ------------------------------------------------------------ errors
ErrNil == "ErrInvalidCommand: DAG cannot be nil"
ErrExists == "ErrInvalidCommand: already exists"
ErrIdChange == "ErrInvalidCommand: update function cannot change DAG ID"
ErrNotFound == "ErrNotFound"
ErrInternal == "ErrInternal"
ErrFn == "update function failed"
ErrReadDir == "error reading directory"
ErrCommand == "ErrInvalidCommand: command validation failed"
ErrPayload == "failed to update DAG: update function failed: ErrInvalidCommand"

IsInvalidCommand(e) == e \in {ErrNil, ErrExists, ErrIdChange, ErrCommand, ErrPayload}

\* ------------------------------------------------------------ In-Memory tier
MemGet(m, id) ==
    IF id \notin DOMAIN m THEN [err |-> ErrNotFound, dag |-> NilDAG]
    ELSE [err |-> "nil", dag |-> m[id]]

MemCreate(m, d) ==
    IF d = NilDAG THEN [err |-> ErrNil, dags |-> m]
    ELSE [err |-> "nil", dags |-> Put(m, d.Id, d)]

\* MemDelete reporting success for an identity that is not stored
MemDelete_Silent(m, id) == [err |-> "nil", dags |-> Remove(m, id)]

MemDelete(m, id) ==
    IF id \notin DOMAIN m THEN [err |-> ErrNotFound, dags |-> m]
    ELSE [err |-> "nil", dags |-> Remove(m, id)]

MemList(m) == DOMAIN m

\* MemUpdate storing the transform's result without comparing identities
MemUpdate_NoIdCheck(m, id, fn) ==
    IF id \notin DOMAIN m THEN [err |-> ErrNotFound, dags |-> m]
    ELSE LET updatedDAG == Apply(fn, m[id]) IN
         IF updatedDAG.failed THEN [err |-> ErrFn, dags |-> m]
         ELSE [err |-> "nil", dags |-> Put(m, updatedDAG.dag.Id, updatedDAG.dag)]

MemUpdate(m, id, fn) ==
    IF id \notin DOMAIN m THEN [err |-> ErrNotFound, dags |-> m]
    ELSE LET updatedDAG == Apply(fn, m[id]) IN
         IF updatedDAG.failed THEN [err |-> ErrFn, dags |-> m]
         ELSE IF updatedDAG.dag.Id # m[id].Id THEN [err |-> ErrIdChange, dags |-> m]
         ELSE [err |-> "nil", dags |-> Put(m, id, updatedDAG.dag)]

\* ------------------------------------------------------------ File tier
\* fault names the file-system call that fails during the operation:
\*   "read" os.ReadFile, "write" os.MkdirAll/os.WriteFile leaving the file as
\*   it was, "writePartial" os.WriteFile leaving a truncated file,
\*   "remove" os.Remove, "readdir" os.ReadDir
Faults == {"none", "read", "write", "writePartial", "remove", "readdir"}

SubOrder(ord, S) == SelectSeq(ord, LAMBDA k : k \in S)

FileGet(f, id, fault) ==
    IF id \notin DOMAIN f \/ fault = "read" THEN [err |-> ErrNotFound, dag |-> NilDAG]
    ELSE IF ~f[id].ok THEN [err |-> ErrInternal, dag |-> NilDAG]
    ELSE [err |-> "nil", dag |-> UnmarshalJSON(f[id])]

FileList(f, fault) ==
    IF fault = "readdir" THEN [err |-> ErrReadDir, ids |-> {}]
    ELSE [err |-> "nil", ids |-> DOMAIN f]

\* os.WriteFile of document doc to the file named id
WriteFile(f, id, doc, fault) ==
    CASE fault = "write"        -> [err |-> ErrInternal, files |-> f]
      [] fault = "writePartial" -> [err |-> ErrInternal, files |-> Put(f, id, Corrupt)]
      [] OTHER                  -> [err |-> "nil", files |-> Put(f, id, doc)]

FileCreate(f, d, fault, ord) ==
    IF d = NilDAG THEN [err |-> ErrNil, files |-> f]
    ELSE IF d.Id \in DOMAIN f THEN [err |-> ErrExists, files |-> f]
    ELSE WriteFile(f, d.Id, MarshalJSON(d, SubOrder(ord, DOMAIN d.Nodes)), fault)

FileUpdate(f, id, fn, fault, ord) ==
    LET existingDAG == FileGet(f, id, fault) IN
    IF existingDAG.err # "nil" THEN [err |-> existingDAG.err, files |-> f]
    ELSE LET updatedDAG == Apply(fn, existingDAG.dag) IN
         IF updatedDAG.failed THEN [err |-> ErrFn, files |-> f]
         ELSE IF updatedDAG.dag.Id # existingDAG.dag.Id THEN [err |-> ErrIdChange, files |-> f]
         ELSE WriteFile(f, id,
                        MarshalJSON(updatedDAG.dag, SubOrder(ord, DOMAIN updatedDAG.dag.Nodes)),
                        fault)

FileDelete(f, id, fault) ==
    IF id \notin DOMAIN f THEN [err |-> ErrNotFound, files |-> f]
    ELSE IF fault = "remove" THEN [err |-> ErrInternal, files |-> f]
    ELSE [err |-> "nil", files |-> Remove(f, id)]

\* ------------------------------------------------------------ Hybrid tier
\* the record of a call: the operation, the identity and transform it was given,
\* the error it returned, the tier the error came from, the items a bulk call skipped
Call(op, id, fn, err, stage, skipped) ==
    [op |-> op, id |-> id, fn |-> fn, err |-> err, stage |-> stage, skipped |-> skipped]

NoFn == Fn("", 0, NilDAG)

\* LoadAll giving up at the first document that fails to load
RECURSIVE LoadAll_Abort(_, _, _, _, _)
LoadAll_Abort(k, f, rd, m, skipped) ==
    IF k > NumDags THEN [dags |-> m, skipped |-> skipped]
    ELSE IF k \notin DOMAIN f THEN LoadAll_Abort(k + 1, f, rd, m, skipped)
    ELSE LET dagObj == FileGet(f, k, IF k \in rd THEN "read" ELSE "none") IN
         IF dagObj.err # "nil" THEN [dags |-> m, skipped |-> skipped + 1]
         ELSE LoadAll_Abort(k + 1, f, rd, MemCreate(m, dagObj.dag).dags, skipped)

\* Initialize: the loop over fileRepo.List (os.ReadDir order: by file name),
\* from file name k on; rd is the set of files whose read fails
RECURSIVE LoadAll(_, _, _, _, _)
LoadAll(k, f, rd, m, skipped) ==
    IF k > NumDags THEN [dags |-> m, skipped |-> skipped]
    ELSE IF k \notin DOMAIN f THEN LoadAll(k + 1, f, rd, m, skipped)
    ELSE LET dagObj == FileGet(f, k, IF k \in rd THEN "read" ELSE "none") IN
         IF dagObj.err # "nil" THEN LoadAll(k + 1, f, rd, m, skipped + 1)
         ELSE LET c == MemCreate(m, dagObj.dag) IN
              IF c.err # "nil" THEN LoadAll(k + 1, f, rd, m, skipped + 1)
              ELSE LoadAll(k + 1, f, rd, c.dags, skipped)

HybridInitialize(readdir, rd) ==
    LET dagIds == FileList(files, IF readdir THEN "readdir" ELSE "none") IN
    IF dagIds.err # "nil" THEN [err |-> dagIds.err, dags |-> dags, skipped |-> 0]
    ELSE LET r == LoadAll(1, files, rd, dags, 0) IN
         [err |-> "nil", dags |-> r.dags, skipped |-> r.skipped]

\* SyncOne leaving a document that already exists as it is
SyncOne_CreateOnly(f, m, id, fault, ord) ==
    LET dagObj == MemGet(m, id) IN
    IF dagObj.err # "nil" THEN [err |-> dagObj.err, files |-> f]
    ELSE IF FileGet(f, id, fault).err # "nil"
         THEN FileCreate(f, dagObj.dag, fault, ord)
         ELSE [err |-> "nil", files |-> f]

\* Sync: one iteration of the loop over memoryRepo.List, for identity id
SyncOne(f, m, id, fault, ord) ==
    LET dagObj == MemGet(m, id) IN
    IF dagObj.err # "nil" THEN [err |-> dagObj.err, files |-> f]
    ELSE IF FileGet(f, id, fault).err # "nil"
         THEN FileCreate(f, dagObj.dag, fault, ord)
         ELSE FileUpdate(f, id, Fn("Replace", 0, dagObj.dag), fault, ord)

\* Sync: the whole loop; fk gives the fault met while handling each identity
RECURSIVE SyncAll(_, _, _, _, _, _)
SyncAll(todo, f, m, fk, ord, skipped) ==
    IF todo = {} THEN [files |-> f, skipped |-> skipped]
    ELSE LET id == CHOOSE x \in todo : TRUE
             r == SyncOne(f, m, id, fk[id], ord)
         IN SyncAll(todo \ {id}, r.files, m, fk, ord,
                    IF r.err # "nil" THEN skipped + 1 ELSE skipped)

\* HybridSync removing the documents of identities that are not in Memory
HybridSync_Mirror(fk, ord) ==
    LET r == SyncAll(MemList(dags), files, dags, fk, ord, 0) IN
    [files |-> [id \in DOMAIN r.files \cap DOMAIN dags |-> r.files[id]], skipped |-> r.skipped]

HybridSync(fk, ord) == SyncAll(MemList(dags), files, dags, fk, ord, 0)

\* HybridCreate without the rollback of the memory insert
HybridCreate_NoRollback(d, fault, ord) ==
    LET c == MemCreate(dags, d) IN
    IF c.err # "nil" THEN [err |-> c.err, stage |-> "memory", dags |-> dags, files |-> files]
    ELSE IF writeThrough
         THEN LET fc == FileCreate(files, d, fault, ord) IN
              [err |-> fc.err, stage |-> IF fc.err # "nil" THEN "file" ELSE "",
               dags |-> c.dags, files |-> fc.files]
         ELSE [err |-> "nil", stage |-> "", dags |-> c.dags, files |-> files]

\* HybridCreate never persisting to the File tier
HybridCreate_MemoryOnly(d, fault, ord) ==
    LET c == MemCreate(dags, d) IN
    IF c.err # "nil" THEN [err |-> c.err, stage |-> "memory", dags |-> dags, files |-> files]
    ELSE [err |-> "nil", stage |-> "", dags |-> c.dags, files |-> files]

\* HybridCreate persisting to the File tier whatever the write-through mode
HybridCreate_WriteAlways(d, fault, ord) ==
    LET c == MemCreate(dags, d) IN
    IF c.err # "nil" THEN [err |-> c.err, stage |-> "memory", dags |-> dags, files |-> files]
    ELSE LET fc == FileCreate(files, d, fault, ord) IN
         IF fc.err # "nil"
         THEN [err |-> fc.err, stage |-> "file",
               dags |-> MemDelete(c.dags, d.Id).dags, files |-> fc.files]
         ELSE [err |-> "nil", stage |-> "", dags |-> c.dags, files |-> fc.files]

HybridCreate(d, fault, ord) ==
    LET c == MemCreate(dags, d) IN
    IF c.err # "nil" THEN [err |-> c.err, stage |-> "memory", dags |-> dags, files |-> files]
    ELSE IF writeThrough
         THEN LET fc == FileCreate(files, d, fault, ord) IN
              IF fc.err # "nil"
              THEN [err |-> fc.err, stage |-> "file",
                    dags |-> MemDelete(c.dags, d.Id).dags, files |-> fc.files]
              ELSE [err |-> "nil", stage |-> "", dags |-> c.dags, files |-> fc.files]
         ELSE [err |-> "nil", stage |-> "", dags |-> c.dags, files |-> files]

\* HybridUpdate putting the previous graph back when the file update fails
HybridUpdate_Rollback(id, fn, fault, ord) ==
    LET u == MemUpdate(dags, id, fn) IN
    IF u.err # "nil" THEN [err |-> u.err, stage |-> "memory", dags |-> dags, files |-> files]
    ELSE IF writeThrough
         THEN LET fu == FileUpdate(files, id, fn, fault, ord) IN
              [err |-> fu.err, stage |-> IF fu.err # "nil" THEN "file" ELSE "",
               dags |-> IF fu.err # "nil" THEN dags ELSE u.dags, files |-> fu.files]
         ELSE [err |-> "nil", stage |-> "", dags |-> u.dags, files |-> files]

HybridUpdate(id, fn, fault, ord) ==
    LET u == MemUpdate(dags, id, fn) IN
    IF u.err # "nil" THEN [err |-> u.err, stage |-> "memory", dags |-> dags, files |-> files]
    ELSE IF writeThrough
         THEN LET fu == FileUpdate(files, id, fn, fault, ord) IN
              [err |-> fu.err, stage |-> IF fu.err # "nil" THEN "file" ELSE "",
               dags |-> u.dags, files |-> fu.files]
         ELSE [err |-> "nil", stage |-> "", dags |-> u.dags, files |-> files]

\* HybridDelete putting the graph back when the file delete fails
HybridDelete_Rollback(id, fault) ==
    LET del == MemDelete(dags, id) IN
    IF del.err # "nil" THEN [err |-> del.err, stage |-> "memory", dags |-> dags, files |-> files]
    ELSE IF writeThrough
         THEN LET fd == FileDelete(files, id, fault) IN
              [err |-> fd.err, stage |-> IF fd.err # "nil" THEN "file" ELSE "",
               dags |-> IF fd.err # "nil" THEN dags ELSE del.dags, files |-> fd.files]
         ELSE [err |-> "nil", stage |-> "", dags |-> del.dags, files |-> files]

HybridDelete(id, fault) ==
    LET del == MemDelete(dags, id) IN
    IF del.err # "nil" THEN [err |-> del.err, stage |-> "memory", dags |-> dags, files |-> files]
    ELSE IF writeThrough
         THEN LET fd == FileDelete(files, id, fault) IN
              [err |-> fd.err, stage |-> IF fd.err # "nil" THEN "file" ELSE "",
               dags |-> del.dags, files |-> fd.files]
         ELSE [err |-> "nil", stage |-> "", dags |-> del.dags, files |-> files]

HybridGet(id) == MemGet(dags, id)

HybridList == MemList(dags)

GetStats(readdir) ==
    LET fileIds == FileList(files, IF readdir THEN "readdir" ELSE "none") IN
    IF fileIds.err # "nil"
    THEN [err |-> fileIds.err, MemoryDAGCount |-> 0, FileDAGCount |-> 0, WriteThrough |-> FALSE]
    ELSE [err |-> "nil", MemoryDAGCount |-> Cardinality(MemList(dags)),
          FileDAGCount |-> Cardinality(fileIds.ids), WriteThrough |-> writeThrough]

\* ------------------------------------------------------------ concurrent callers
\* a goroutine in InMemoryDAGRepository.Update(id, fn): pc is the statement it
\* is about to execute, existingDAG and updatedDAG its locals, err what it returns
Goroutine(pc, id, fn, existingDAG, updatedDAG, err) ==
    [pc |-> pc, id |-> id, fn |-> fn, existingDAG |-> existingDAG,
     updatedDAG |-> updatedDAG, err |-> err]

\* no call in progress
NoGoroutines ==
    /\ mu = 0
    /\ goroutines = [g \in Goroutines |-> Goroutine("idle", 0, NoFn, NilDAG, NilDAG, "nil")]
    /\ before = EmptyMap

\* sync.RWMutex.Lock taking every caller in at once
Lock_NoExclusion(m, g) == [acquired |-> TRUE, mu |-> g]

\* sync.RWMutex.Lock by goroutine g: granted only while no goroutine holds it
Lock(m, g) ==
    IF m = 0 THEN [acquired |-> TRUE, mu |-> g] ELSE [acquired |-> FALSE, mu |-> m]

\* os.WriteFile is not atomic: it opens the file truncating it, then writes.
\* FileDAGRepository.Update by goroutine gr opening the document with O_TRUNC,
\* refusing when the document is no longer the one it read
FileUpdateOpen_Detect(f, gr) ==
    IF gr.id \in DOMAIN f /\ f[gr.id].ok /\ UnmarshalJSON(f[gr.id]) = gr.existingDAG
    THEN [err |-> "nil", files |-> Put(f, gr.id, Corrupt)]
    ELSE [err |-> ErrInternal, files |-> f]

\* FileDAGRepository.Update by goroutine gr: os.WriteFile opening the document
\* with O_TRUNC, which leaves an empty file that does not parse
FileUpdateOpen(f, gr) == [err |-> "nil", files |-> Put(f, gr.id, Corrupt)]

\* os.WriteFile writing doc from offset 0 into the opened file: onto an empty
\* file it leaves doc; onto what another writer wrote since the file was
\* truncated it leaves doc or, when doc is the shorter, doc followed by the
\* rest of the other document, which does not parse
WriteData(f, id, doc) ==
    {Put(f, id, doc)} \cup (IF id \in DOMAIN f /\ f[id].ok THEN {Put(f, id, Corrupt)} ELSE {})

\* ------------------------------------------------------------ graphs with answers
Answer(id, statement, next) == [Id |-> id, Statement |-> statement, NextNode |-> next]

NodeOf(id, question, answers) == [Id |-> id, Question |-> question, Answers |-> answers]

\* a *dag.DAG argument: nil, or pointing to d
NilPtr == [nil |-> TRUE, dag |-> NilDAG]

Ptr(d) == [nil |-> FALSE, dag |-> d]

\* uuid.UUID.String and uuid.Parse: the textual form of an identifier is a
\* sequence holding it; the empty sequence is the empty string
UUIDString(id) == <<id>>

UUIDParse(str) == IF Len(str) = 1 THEN [err |-> FALSE, id |-> str[1]] ELSE [err |-> TRUE, id |-> 0]

\* ------------------------------------------------------------ validator
ValidationError(code, nodeID, answerID, n) ==
    [Code |-> code, NodeID |-> nodeID, AnswerID |-> answerID, N |-> n]

ValidationStatistics ==
    [TotalNodes |-> 0, RootNodes |-> 0, LeafNodes |-> 0, MaxDepth |-> 0, HasCycles |-> FALSE,
     TotalAnswers |-> 0, CyclePaths |-> <<>>, RootNodeIDs |-> <<>>, LeafNodeIDs |-> <<>>]

ValidationResult ==
    [IsValid |-> TRUE, Errors |-> <<>>, Warnings |-> <<>>, Statistics |-> ValidationStatistics]

\* AddError dropping every finding after the first
AddError_KeepFirst(result, e) ==
    [result EXCEPT !.IsValid = FALSE, !.Errors = IF @ = <<>> THEN <<e>> ELSE @]

\* result.IsValid = false; result.Errors = append(result.Errors, e)
AddError(result, e) == [result EXCEPT !.IsValid = FALSE, !.Errors = Append(@, e)]

validateBasicStructure(d, result) ==
    LET r1 == IF d.Id = 0
              THEN AddError(result, ValidationError("DAG_INVALID_ID", <<>>, <<>>, 0))
              ELSE result
        r2 == IF d.Title = 0
              THEN AddError(r1, ValidationError("DAG_EMPTY_TITLE", <<>>, <<>>, 0))
              ELSE r1
    IN IF DOMAIN d.Nodes = {}
       THEN AddError(r2, ValidationError("DAG_NO_NODES", <<>>, <<>>, 0))
       ELSE r2

\* validateAnswers: the loop over node.Answers, from index i on
RECURSIVE validateAnswers(_, _, _, _)
validateAnswers(d, node, i, result) ==
    IF i > Len(node.Answers) THEN result
    ELSE LET answer == node.Answers[i]
             r1 == IF answer.Id = 0
                   THEN AddError(result, ValidationError("ANSWER_INVALID_ID",
                                                         UUIDString(node.Id), <<>>, i - 1))
                   ELSE result
             r2 == IF answer.Statement = ""
                   THEN AddError(r1, ValidationError("ANSWER_EMPTY_STATEMENT",
                                                     UUIDString(node.Id), UUIDString(answer.Id), 0))
                   ELSE r1
             r3 == IF answer.NextNode # 0 /\ answer.NextNode \notin DOMAIN d.Nodes
                   THEN AddError(r2, ValidationError("ANSWER_INVALID_REFERENCE",
                                                     UUIDString(node.Id), UUIDString(answer.Id), 0))
                   ELSE r2
         IN validateAnswers(d, node, i + 1, r3)

\* validateNodes: the loop over d.Nodes, taken in the order ord
RECURSIVE validateNodes(_, _, _)
validateNodes(d, ord, result) ==
    IF ord = <<>> THEN result
    ELSE LET nodeId == Head(ord)
             node == d.Nodes[nodeId]
             r1 == IF nodeId # node.Id
                   THEN AddError(result, ValidationError("NODE_ID_MISMATCH",
                                                         UUIDString(node.Id), <<>>, 0))
                   ELSE result
             r2 == IF node.Question = ""
                   THEN AddError(r1, ValidationError("NODE_EMPTY_QUESTION",
                                                     UUIDString(node.Id), <<>>, 0))
                   ELSE r1
         IN validateNodes(d, Tail(ord), validateAnswers(d, node, 1, r2))

\* the keys of the referencedNodes map built by validateRootNode
referencedNodes(d) ==
    UNION {{d.Nodes[k].Answers[i].NextNode : i \in 1..Len(d.Nodes[k].Answers)} :
              k \in DOMAIN d.Nodes} \ {0}

\* validateRootNode counting a node that only references itself as a root
validateRootNode_IgnoreSelf(d, ord, result) ==
    LET referenced == UNION {{d.Nodes[k].Answers[i].NextNode :
                                 i \in 1..Len(d.Nodes[k].Answers)} \ {k} :
                                k \in DOMAIN d.Nodes} \ {0}
        rootNodes == SelectSeq(ord, LAMBDA nodeId : nodeId \notin referenced)
        r1 == IF Len(rootNodes) = 0
              THEN AddError(result, ValidationError("DAG_NO_ROOT", <<>>, <<>>, 0))
              ELSE IF Len(rootNodes) > 1
              THEN AddError(result, ValidationError("DAG_MULTIPLE_ROOTS", <<>>, <<>>,
                                                    Len(rootNodes)))
              ELSE result
    IN [r1 EXCEPT !.Statistics.RootNodes = Len(rootNodes),
                  !.Statistics.RootNodeIDs =
                      [i \in 1..Len(rootNodes) |-> UUIDString(rootNodes[i])]]

\* validateRootNode: ord is the order in which the allNodes map is iterated
validateRootNode(d, ord, result) ==
    LET rootNodes == SelectSeq(ord, LAMBDA nodeId : nodeId \notin referencedNodes(d))
        r1 == IF Len(rootNodes) = 0
              THEN AddError(result, ValidationError("DAG_NO_ROOT", <<>>, <<>>, 0))
              ELSE IF Len(rootNodes) > 1
              THEN AddError(result, ValidationError("DAG_MULTIPLE_ROOTS", <<>>, <<>>,
                                                    Len(rootNodes)))
              ELSE result
    IN [r1 EXCEPT !.Statistics.RootNodes = Len(rootNodes),
                  !.Statistics.RootNodeIDs =
                      [i \in 1..Len(rootNodes) |-> UUIDString(rootNodes[i])]]

\* the index of the first occurrence of nodeId in path, 0 if there is none
cycleStart(path, nodeId) ==
    IF \E i \in 1..Len(path) : path[i] = nodeId
    THEN CHOOSE i \in 1..Len(path) : path[i] = nodeId /\ \A j \in 1..(i - 1) : path[j] # nodeId
    ELSE 0

\* the dfs closure of validateCycles; st holds the visited and inStack maps and
\* the cycles found so far, ret is the value dfs returns
RECURSIVE dfs(_, _, _, _)
RECURSIVE dfsAnswers(_, _, _, _, _)
dfs(d, nodeId, path, st) ==
    IF nodeId \in st.inStack
    THEN LET start == cycleStart(path, nodeId) IN
         [st |-> IF start > 0
                 THEN [st EXCEPT !.cycles =
                          Append(@, [i \in 1..(Len(path) - start + 2) |->
                                        IF i = Len(path) - start + 2
                                        THEN UUIDString(nodeId)
                                        ELSE UUIDString(path[start + i - 1])])]
                 ELSE st,
          ret |-> TRUE]
    ELSE IF nodeId \in st.visited THEN [st |-> st, ret |-> FALSE]
    ELSE LET st1 == [st EXCEPT !.visited = @ \cup {nodeId}, !.inStack = @ \cup {nodeId}]
             newPath == Append(path, nodeId)
             r == IF nodeId \in DOMAIN d.Nodes
                  THEN dfsAnswers(d, d.Nodes[nodeId].Answers, 1, newPath, st1)
                  ELSE [st |-> st1, ret |-> FALSE]
         IN IF r.ret THEN r
            ELSE [st |-> [r.st EXCEPT !.inStack = @ \ {nodeId}], ret |-> FALSE]

\* dfs: the loop over node.Answers, from index i on
dfsAnswers(d, answers, i, newPath, st) ==
    IF i > Len(answers) THEN [st |-> st, ret |-> FALSE]
    ELSE IF answers[i].NextNode = 0 THEN dfsAnswers(d, answers, i + 1, newPath, st)
    ELSE LET r == dfs(d, answers[i].NextNode, newPath, st) IN
         IF r.ret THEN r ELSE dfsAnswers(d, answers, i + 1, newPath, r.st)

\* validateCycles: the loop over d.Nodes that starts a dfs at each unvisited node
RECURSIVE dfsFrom(_, _, _, _)
dfsFrom(d, ord, st, hasCycles) ==
    IF ord = <<>> THEN [st |-> st, hasCycles |-> hasCycles]
    ELSE IF Head(ord) \in st.visited THEN dfsFrom(d, Tail(ord), st, hasCycles)
    ELSE LET r == dfs(d, Head(ord), <<>>, st) IN
         dfsFrom(d, Tail(ord), r.st, hasCycles \/ r.ret)

\* validateCycles searching from the first node of the iteration only
validateCycles_FirstNodeOnly(d, ord, result) ==
    LET r == dfsFrom(d, IF ord = <<>> THEN ord ELSE <<Head(ord)>>,
                     [visited |-> {}, inStack |-> {}, cycles |-> <<>>], FALSE)
        r1 == [result EXCEPT !.Statistics.HasCycles = r.hasCycles,
                             !.Statistics.CyclePaths = r.st.cycles]
    IN IF r.hasCycles
       THEN AddError(r1, ValidationError("DAG_HAS_CYCLES", <<>>, <<>>, Len(r.st.cycles)))
       ELSE r1

validateCycles(d, ord, result) ==
    LET r == dfsFrom(d, ord, [visited |-> {}, inStack |-> {}, cycles |-> <<>>], FALSE)
        r1 == [result EXCEPT !.Statistics.HasCycles = r.hasCycles,
                             !.Statistics.CyclePaths = r.st.cycles]
    IN IF r.hasCycles
       THEN AddError(r1, ValidationError("DAG_HAS_CYCLES", <<>>, <<>>, Len(r.st.cycles)))
       ELSE r1

\* the entries calculateMaxDepth appends to its queue for node current
enqueue(d, current, visited) ==
    IF current.nodeId \notin DOMAIN d.Nodes THEN <<>>
    ELSE LET answers == SelectSeq(d.Nodes[current.nodeId].Answers,
                                  LAMBDA answer : answer.NextNode # 0
                                                  /\ answer.NextNode \notin visited)
         IN [i \in 1..Len(answers) |->
                [nodeId |-> answers[i].NextNode, depth |-> current.depth + 1]]

\* the queue loop of calculateMaxDepth taking the depth of every entry it
\* dequeues, visited or not
RECURSIVE BFS_NoVisitedCheck(_, _, _, _)
BFS_NoVisitedCheck(d, queue, visited, maxDepth) ==
    IF queue = <<>> THEN maxDepth
    ELSE LET current == Head(queue)
             v == visited \cup {current.nodeId}
         IN BFS_NoVisitedCheck(d, Tail(queue) \o enqueue(d, current, v), v,
                               IF current.depth > maxDepth THEN current.depth ELSE maxDepth)

\* the queue loop of calculateMaxDepth
RECURSIVE BFS(_, _, _, _)
BFS(d, queue, visited, maxDepth) ==
    IF queue = <<>> THEN maxDepth
    ELSE LET current == Head(queue) IN
         IF current.nodeId \in visited THEN BFS(d, Tail(queue), visited, maxDepth)
         ELSE LET v == visited \cup {current.nodeId} IN
              BFS(d, Tail(queue) \o enqueue(d, current, v), v,
                  IF current.depth > maxDepth THEN current.depth ELSE maxDepth)

calculateMaxDepth(d, rootNodeID) ==
    IF rootNodeID = <<>> THEN 0
    ELSE LET rootID == UUIDParse(rootNodeID) IN
         IF rootID.err THEN 0
         ELSE BFS(d, <<[nodeId |-> rootID.id, depth |-> 0]>>, {}, 0)

isLeaf(node) == \A i \in 1..Len(node.Answers) : node.Answers[i].NextNode = 0

RECURSIVE totalAnswers(_, _)
totalAnswers(d, ord) ==
    IF ord = <<>> THEN 0 ELSE Len(d.Nodes[Head(ord)].Answers) + totalAnswers(d, Tail(ord))

\* calculateStatistics taking only nodes without answers as leaves
calculateStatistics_LeafNoAnswers(d, ord, result) ==
    LET leafNodes == SelectSeq(ord, LAMBDA nodeId : d.Nodes[nodeId].Answers = <<>>)
        r1 == [result EXCEPT
                  !.Statistics.TotalNodes = Cardinality(DOMAIN d.Nodes),
                  !.Statistics.LeafNodes = Len(leafNodes),
                  !.Statistics.LeafNodeIDs =
                      [i \in 1..Len(leafNodes) |-> UUIDString(leafNodes[i])],
                  !.Statistics.TotalAnswers = totalAnswers(d, ord)]
    IN IF Len(r1.Statistics.RootNodeIDs) > 0 /\ ~r1.Statistics.HasCycles
       THEN [r1 EXCEPT !.Statistics.MaxDepth =
                          calculateMaxDepth(d, r1.Statistics.RootNodeIDs[1])]
       ELSE r1

\* calculateStatistics: ord is the order in which d.Nodes is iterated
calculateStatistics(d, ord, result) ==
    LET leafNodes == SelectSeq(ord, LAMBDA nodeId : isLeaf(d.Nodes[nodeId]))
        r1 == [result EXCEPT
                  !.Statistics.TotalNodes = Cardinality(DOMAIN d.Nodes),
                  !.Statistics.LeafNodes = Len(leafNodes),
                  !.Statistics.LeafNodeIDs =
                      [i \in 1..Len(leafNodes) |-> UUIDString(leafNodes[i])],
                  !.Statistics.TotalAnswers = totalAnswers(d, ord)]
    IN IF Len(r1.Statistics.RootNodeIDs) > 0 /\ ~r1.Statistics.HasCycles
       THEN [r1 EXCEPT !.Statistics.MaxDepth =
                          calculateMaxDepth(d, r1.Statistics.RootNodeIDs[1])]
       ELSE r1

\* ValidateDAG: ords gives the iteration order of the node map in each of its loops
ValidateDAG(p, ords) ==
    IF p.nil
    THEN AddError(ValidationResult, ValidationError("DAG_NULL", <<>>, <<>>, 0))
    ELSE calculateStatistics(p.dag, ords.statistics,
             validateCycles(p.dag, ords.cycles,
                 validateRootNode(p.dag, ords.roots,
                     validateNodes(p.dag, ords.nodes,
                         validateBasicStructure(p.dag, ValidationResult)))))

IsValidDAG(p, ords) == ValidateDAG(p, ords).IsValid

\* ------------------------------------------------------------ UpdateDAGUseCase
\* CmdUpdateDAG: DAGId is a string, DAG a *dag.DAG
Cmd(DAGId, DAG) == [DAGId |-> DAGId, DAG |-> DAG]

\* validateDAGStructure: the error is nil exactly when ValidateDAG reports valid
validateDAGStructure(p, ords) == ~ValidateDAG(p, ords).IsValid

\* the closure of Execute storing any payload that carries the target identity
ExecuteFn_NoValidation(id, cmd, ords) ==
    IF cmd.DAG.dag.Id # id THEN Fn("Fail", 0, NilDAG)
    ELSE Fn("Replace", 0, cmd.DAG.dag)

\* the closure Execute hands to Update: it fails with an ErrInvalidCommand
\* unless the payload carries the target identity and passes validation, and
\* otherwise returns the payload
ExecuteFn(id, cmd, ords) ==
    IF cmd.DAG.dag.Id # id THEN Fn("Fail", 0, NilDAG)
    ELSE IF validateDAGStructure(cmd.DAG, ords) THEN Fn("Fail", 0, NilDAG)
    ELSE Fn("Replace", 0, cmd.DAG.dag)

\* UpdateDAGUseCase.Execute over the store m; an error of the closure reaches
\* the caller wrapped with %w twice, so it still is an ErrInvalidCommand
Execute(m, cmd, ords) ==
    IF Len(cmd.DAGId) = 0 \/ UUIDParse(cmd.DAGId).err \/ cmd.DAG.nil
    THEN [err |-> ErrCommand, dags |-> m, id |-> 0]
    ELSE LET id == UUIDParse(cmd.DAGId).id
             u == MemUpdate(m, id, ExecuteFn(id, cmd, ords))
         IN [err |-> IF u.err = ErrFn THEN ErrPayload ELSE u.err, dags |-> u.dags, id |-> id]

\* no validation in progress
NoValidation ==
    /\ graph = NilPtr
    /\ report = ValidationResult
    /\ vpc = "idle"

\* ------------------------------------------------------------ Walk
ErrNodeNotFound == "error getting node: node not found"
ErrFnAnswer == "error getting answer for node"
ErrAnswerNotValid == "selected answer is not valid for node"

\* what fnAnswer returns: an answer and whether the error is non-nil
Selection(answer, err) == [answer |-> answer, err |-> err]

NoSelection == Selection(Answer(0, "", 0), FALSE)

\* DAG.GetNode
GetNode(d, id) ==
    IF id \notin DOMAIN d.Nodes THEN [err |-> TRUE, node |-> NodeOf(0, "", <<>>)]
    ELSE [err |-> FALSE, node |-> d.Nodes[id]]

\* what one iteration of Walk's loop leaves: called tells whether fnAnswer ran
Iteration(state, err, currentNodeId, p, called) ==
    [state |-> state, err |-> err, current |-> currentNodeId, path |-> p, called |-> called]

\* the index of the first of node's answers with the identifier id, 0 if none
matching(node, id) ==
    IF \E i \in 1..Len(node.Answers) : node.Answers[i].Id = id
    THEN CHOOSE i \in 1..Len(node.Answers) :
            node.Answers[i].Id = id /\ \A j \in 1..(i - 1) : node.Answers[j].Id # id
    ELSE 0

\* WalkIteration accepting whatever fnAnswer returns
WalkIteration_NoCheck(d, currentNodeId, p, sel) ==
    LET currentNode == GetNode(d, currentNodeId) IN
    IF currentNode.err THEN Iteration("Error", ErrNodeNotFound, currentNodeId, p, FALSE)
    ELSE IF Len(currentNode.node.Answers) = 0
    THEN Iteration("Terminal", "nil", currentNodeId, p, FALSE)
    ELSE IF sel.err THEN Iteration("Error", ErrFnAnswer, currentNodeId, p, TRUE)
    ELSE IF sel.answer.NextNode = 0
    THEN Iteration("Terminal", "nil", currentNodeId, Append(p, sel.answer), TRUE)
    ELSE Iteration("AtNode", "nil", sel.answer.NextNode, Append(p, sel.answer), TRUE)

\* WalkIteration asking fnAnswer at a node without answers
WalkIteration_AskLeaf(d, currentNodeId, p, sel) ==
    LET currentNode == GetNode(d, currentNodeId) IN
    IF currentNode.err THEN Iteration("Error", ErrNodeNotFound, currentNodeId, p, FALSE)
    ELSE IF sel.err THEN Iteration("Error", ErrFnAnswer, currentNodeId, p, TRUE)
    ELSE IF matching(currentNode.node, sel.answer.Id) = 0
    THEN Iteration("Error", ErrAnswerNotValid, currentNodeId, p, TRUE)
    ELSE IF sel.answer.NextNode = 0
    THEN Iteration("Terminal", "nil", currentNodeId, Append(p, sel.answer), TRUE)
    ELSE Iteration("AtNode", "nil", sel.answer.NextNode, Append(p, sel.answer), TRUE)

\* WalkIteration refusing an answer that is already on the path
WalkIteration_StopOnRepeat(d, currentNodeId, p, sel) ==
    LET currentNode == GetNode(d, currentNodeId) IN
    IF currentNode.err THEN Iteration("Error", ErrNodeNotFound, currentNodeId, p, FALSE)
    ELSE IF Len(currentNode.node.Answers) = 0
    THEN Iteration("Terminal", "nil", currentNodeId, p, FALSE)
    ELSE IF sel.err THEN Iteration("Error", ErrFnAnswer, currentNodeId, p, TRUE)
    ELSE IF matching(currentNode.node, sel.answer.Id) = 0
    THEN Iteration("Error", ErrAnswerNotValid, currentNodeId, p, TRUE)
    ELSE IF \E i \in 1..Len(p) : p[i].Id = sel.answer.Id
    THEN Iteration("Error", ErrAnswerNotValid, currentNodeId, p, TRUE)
    ELSE IF sel.answer.NextNode = 0
    THEN Iteration("Terminal", "nil", currentNodeId, Append(p, sel.answer), TRUE)
    ELSE Iteration("AtNode", "nil", sel.answer.NextNode, Append(p, sel.answer), TRUE)

\* WalkIteration never leaving the node it is at
WalkIteration_StayAtNode(d, currentNodeId, p, sel) ==
    LET currentNode == GetNode(d, currentNodeId) IN
    IF currentNode.err THEN Iteration("Error", ErrNodeNotFound, currentNodeId, p, FALSE)
    ELSE IF Len(currentNode.node.Answers) = 0
    THEN Iteration("Terminal", "nil", currentNodeId, p, FALSE)
    ELSE IF sel.err THEN Iteration("Error", ErrFnAnswer, currentNodeId, p, TRUE)
    ELSE IF matching(currentNode.node, sel.answer.Id) = 0
    THEN Iteration("Error", ErrAnswerNotValid, currentNodeId, p, TRUE)
    ELSE IF sel.answer.NextNode = 0
    THEN Iteration("Terminal", "nil", currentNodeId, Append(p, sel.answer), TRUE)
    ELSE Iteration("AtNode", "nil", currentNodeId, Append(p, sel.answer), TRUE)

\* one iteration of the loop of DAG.Walk (backend/internal/dag): sel is what
\* fnAnswer returns when it is called
WalkIteration(d, currentNodeId, p, sel) ==
    LET currentNode == GetNode(d, currentNodeId) IN
    IF currentNode.err THEN Iteration("Error", ErrNodeNotFound, currentNodeId, p, FALSE)
    ELSE IF Len(currentNode.node.Answers) = 0
    THEN Iteration("Terminal", "nil", currentNodeId, p, FALSE)
    ELSE IF sel.err THEN Iteration("Error", ErrFnAnswer, currentNodeId, p, TRUE)
    ELSE IF matching(currentNode.node, sel.answer.Id) = 0
    THEN Iteration("Error", ErrAnswerNotValid, currentNodeId, p, TRUE)
    ELSE IF sel.answer.NextNode = 0
    THEN Iteration("Terminal", "nil", currentNodeId, Append(p, sel.answer), TRUE)
    ELSE Iteration("AtNode", "nil", sel.answer.NextNode, Append(p, sel.answer), TRUE)

\* one iteration of the loop of DAG.Walk (internal/dag): the answer appended
\* and followed is validAnswer, the node's own answer with the selected identifier
WalkIterationValid(d, currentNodeId, p, sel) ==
    LET currentNode == GetNode(d, currentNodeId) IN
    IF currentNode.err THEN Iteration("Error", ErrNodeNotFound, currentNodeId, p, FALSE)
    ELSE IF Len(currentNode.node.Answers) = 0
    THEN Iteration("Terminal", "nil", currentNodeId, p, FALSE)
    ELSE IF sel.err THEN Iteration("Error", ErrFnAnswer, currentNodeId, p, TRUE)
    ELSE IF matching(currentNode.node, sel.answer.Id) = 0
    THEN Iteration("Error", ErrAnswerNotValid, currentNodeId, p, TRUE)
    ELSE LET validAnswer == currentNode.node.Answers[matching(currentNode.node, sel.answer.Id)] IN
         IF validAnswer.NextNode = 0
         THEN Iteration("Terminal", "nil", currentNodeId, Append(p, validAnswer), TRUE)
         ELSE Iteration("AtNode", "nil", validAnswer.NextNode, Append(p, validAnswer), TRUE)

\* no walk in progress
NoWalk ==
    /\ impl = ""
    /\ walkStart = 0
    /\ walkNode = 0
    /\ walkPath = <<>>
    /\ asked = 0
    /\ selected = NoSelection
    /\ wstate = "idle"
    /\ werr = "nil"

\* ------------------------------------------------------------ initial state
\* documents the File tier itself writes: named by the identity they hold
InitDocs(id) == {Corrupt} \cup UNION {Marshalled(d) : d \in {g \in InputDAGs : g.Id = id}}

InitDirs == UNION {{f \in [S -> UNION {InitDocs(i) : i \in S}] : \A i \in S : f[i] \in InitDocs(i)} :
                     S \in SUBSET DagIds}

Init ==
    /\ dags = EmptyMap
    /\ files \in InitDirs
    /\ writeThrough \in BOOLEAN
    /\ initialized = FALSE
    /\ ioFailed = FALSE
    /\ last = Call("New", 0, NoFn, "nil", "", 0)
    /\ created = {}
    /\ NoGoroutines
    /\ NoValidation
    /\ NoWalk

\* ------------------------------------------------------------ actions
\* NewHybridDAGRepository over the same directory (a restart of the process)
NewCall ==
    /\ dags' = EmptyMap
    /\ writeThrough' \in BOOLEAN
    /\ initialized' = FALSE
    /\ last' = Call("New", 0, NoFn, "nil", "", 0)
    /\ UNCHANGED <<files, ioFailed>>

InitializeCall ==
    \E readdir \in BOOLEAN, rd \in SUBSET DagIds :
        LET r == HybridInitialize(readdir, rd) IN
        /\ dags' = r.dags
        /\ initialized' = (initialized \/ r.err = "nil")
        /\ ioFailed' = (ioFailed \/ readdir \/ rd # {})
        /\ last' = Call("Initialize", 0, NoFn, r.err, "", r.skipped)
        /\ UNCHANGED <<files, writeThrough>>

SyncCall ==
    \E fk \in [DagIds -> {"none", "read", "write", "writePartial"}], ord \in Orders(NodeIds) :
        LET r == HybridSync(fk, ord) IN
        /\ files' = r.files
        /\ ioFailed' = (ioFailed \/ \E i \in DagIds : fk[i] # "none")
        /\ last' = Call("Sync", 0, NoFn, "nil", "", r.skipped)
        /\ UNCHANGED <<dags, writeThrough, initialized>>

CreateCall ==
    \E d \in InputDAGs \cup {NilDAG}, fault \in {"none", "write", "writePartial"},
       ord \in Orders(NodeIds) :
        LET r == HybridCreate(d, fault, ord) IN
        /\ dags' = r.dags
        /\ files' = r.files
        /\ ioFailed' = (ioFailed \/ fault # "none")
        /\ last' = Call("Create", d.Id, NoFn, r.err, r.stage, 0)
        /\ UNCHANGED <<writeThrough, initialized>>

UpdateCall ==
    \E id \in DagIds, fn \in Transforms, fault \in {"none", "read", "write", "writePartial"},
       ord \in Orders(NodeIds) :
        LET r == HybridUpdate(id, fn, fault, ord) IN
        /\ dags' = r.dags
        /\ files' = r.files
        /\ ioFailed' = (ioFailed \/ fault # "none")
        /\ last' = Call("Update", id, fn, r.err, r.stage, 0)
        /\ UNCHANGED <<writeThrough, initialized>>

DeleteCall ==
    \E id \in DagIds, fault \in {"none", "remove"} :
        LET r == HybridDelete(id, fault) IN
        /\ dags' = r.dags
        /\ files' = r.files
        /\ ioFailed' = (ioFailed \/ fault # "none")
        /\ last' = Call("Delete", id, NoFn, r.err, r.stage, 0)
        /\ UNCHANGED <<writeThrough, initialized>>

Get ==
    \E id \in DagIds :
        /\ last' = Call("Get", id, NoFn, HybridGet(id).err, "", 0)
        /\ UNCHANGED <<dags, files, writeThrough, initialized, ioFailed>>
        /\ UNCHANGED <<created, outside>>

\* the Hybrid repository's calls, as its caller sees them
New == NewCall /\ UNCHANGED <<created, outside>>

Initialize == InitializeCall /\ UNCHANGED <<created, outside>>

Sync == SyncCall /\ UNCHANGED <<created, outside>>

Create == CreateCall /\ UNCHANGED <<created, outside>>

Update == UpdateCall /\ UNCHANGED <<created, outside>>

Delete == DeleteCall /\ UNCHANGED <<created, outside>>

Next == New \/ Initialize \/ Sync \/ Create \/ Update \/ Delete \/ Get

Spec == Init /\ [][Next]_vars

\* ------------------------------------------------------------ the tiers used on their own
\* InMemoryDAGRepository and FileDAGRepository called directly, as a caller
\* holding either repository can

MemoryGet ==
    \E id \in DagIds :
        /\ last' = Call("Memory.Get", id, NoFn, MemGet(dags, id).err, "memory", 0)
        /\ UNCHANGED <<dags, files, writeThrough, initialized, ioFailed>>
        /\ UNCHANGED <<created, outside>>

MemoryCreate ==
    \E d \in InputDAGs \cup {NilDAG} :
        LET r == MemCreate(dags, d) IN
        /\ dags' = r.dags
        /\ last' = Call("Memory.Create", d.Id, NoFn, r.err, "memory", 0)
        /\ UNCHANGED <<files, writeThrough, initialized, ioFailed>>
        /\ UNCHANGED <<created, outside>>

MemoryUpdate ==
    \E id \in DagIds, fn \in Transforms :
        LET r == MemUpdate(dags, id, fn) IN
        /\ dags' = r.dags
        /\ last' = Call("Memory.Update", id, fn, r.err, "memory", 0)
        /\ UNCHANGED <<files, writeThrough, initialized, ioFailed>>
        /\ UNCHANGED <<created, outside>>

MemoryDelete ==
    \E id \in DagIds :
        LET r == MemDelete(dags, id) IN
        /\ dags' = r.dags
        /\ last' = Call("Memory.Delete", id, NoFn, r.err, "memory", 0)
        /\ UNCHANGED <<files, writeThrough, initialized, ioFailed>>
        /\ UNCHANGED <<created, outside>>

FileGetCall ==
    \E id \in DagIds, fault \in {"none", "read"} :
        /\ last' = Call("File.Get", id, NoFn, FileGet(files, id, fault).err, "file", 0)
        /\ ioFailed' = (ioFailed \/ fault # "none")
        /\ UNCHANGED <<dags, files, writeThrough, initialized>>
        /\ UNCHANGED <<created, outside>>

FileCreateCall ==
    \E d \in InputDAGs \cup {NilDAG}, fault \in {"none", "write", "writePartial"},
       ord \in Orders(NodeIds) :
        LET r == FileCreate(files, d, fault, ord) IN
        /\ files' = r.files
        /\ ioFailed' = (ioFailed \/ fault # "none")
        /\ last' = Call("File.Create", d.Id, NoFn, r.err, "file", 0)
        /\ UNCHANGED <<dags, writeThrough, initialized>>
        /\ UNCHANGED <<created, outside>>

FileUpdateCall ==
    \E id \in DagIds, fn \in Transforms, fault \in {"none", "read", "write", "writePartial"},
       ord \in Orders(NodeIds) :
        LET r == FileUpdate(files, id, fn, fault, ord) IN
        /\ files' = r.files
        /\ ioFailed' = (ioFailed \/ fault # "none")
        /\ last' = Call("File.Update", id, fn, r.err, "file", 0)
        /\ UNCHANGED <<dags, writeThrough, initialized>>
        /\ UNCHANGED <<created, outside>>

FileDeleteCall ==
    \E id \in DagIds, fault \in {"none", "remove"} :
        LET r == FileDelete(files, id, fault) IN
        /\ files' = r.files
        /\ ioFailed' = (ioFailed \/ fault # "none")
        /\ last' = Call("File.Delete", id, NoFn, r.err, "file", 0)
        /\ UNCHANGED <<dags, writeThrough, initialized>>
        /\ UNCHANGED <<created, outside>>

NextTier ==
    \/ MemoryGet \/ MemoryCreate \/ MemoryUpdate \/ MemoryDelete
    \/ FileGetCall \/ FileCreateCall \/ FileUpdateCall \/ FileDeleteCall
    \/ Create

\* the three repositories, each called through its own methods
SpecTier == Init /\ [][NextTier]_vars

\* ------------------------------------------------------------ concurrent Updates
\* NumGoroutines goroutines call InMemoryDAGRepository.Update at once on a
\* store holding freshly created graphs
Stores == UNION {{m \in [S -> {NewDAG(i, t) : i \in S, t \in Titles}] : \A i \in S : m[i].Id = i} :
                   S \in SUBSET DagIds}

InitConc ==
    /\ dags \in Stores
    /\ before = dags
    /\ mu = 0
    /\ goroutines \in [Goroutines ->
           {Goroutine("Lock", id, fn, NilDAG, NilDAG, "nil") : id \in DagIds, fn \in Transforms}]
    /\ files = EmptyMap
    /\ writeThrough = FALSE
    /\ initialized = FALSE
    /\ ioFailed = FALSE
    /\ last = Call("New", 0, NoFn, "nil", "", 0)
    /\ created = {}
    /\ NoValidation
    /\ NoWalk

notConc ==
    <<files, writeThrough, initialized, ioFailed, last, created, before, valVars, walkVars>>

\* r.mu.Lock()
UpdateLock ==
    \E g \in Goroutines :
        /\ goroutines[g].pc = "Lock"
        /\ Lock(mu, g).acquired
        /\ mu' = Lock(mu, g).mu
        /\ goroutines' = [goroutines EXCEPT ![g].pc = "lookup"]
        /\ UNCHANGED <<dags, notConc>>

\* existingDAG, exists := r.dags[id]
UpdateLookup ==
    \E g \in Goroutines :
        /\ goroutines[g].pc = "lookup"
        /\ goroutines' =
               IF goroutines[g].id \notin DOMAIN dags
               THEN [goroutines EXCEPT ![g].pc = "Unlock", ![g].err = ErrNotFound]
               ELSE [goroutines EXCEPT ![g].pc = "fnUpdate",
                                       ![g].existingDAG = dags[goroutines[g].id]]
        /\ UNCHANGED <<dags, mu, notConc>>

\* updatedDAG, err := fnUpdate(*existingDAG)
UpdateFn ==
    \E g \in Goroutines :
        /\ goroutines[g].pc = "fnUpdate"
        /\ LET r == Apply(goroutines[g].fn, goroutines[g].existingDAG) IN
           goroutines' =
               IF r.failed
               THEN [goroutines EXCEPT ![g].pc = "Unlock", ![g].err = ErrFn]
               ELSE [goroutines EXCEPT ![g].pc = "checkId", ![g].updatedDAG = r.dag]
        /\ UNCHANGED <<dags, mu, notConc>>

\* if updatedDAG.Id != existingDAG.Id
UpdateCheckId ==
    \E g \in Goroutines :
        /\ goroutines[g].pc = "checkId"
        /\ goroutines' =
               IF goroutines[g].updatedDAG.Id # goroutines[g].existingDAG.Id
               THEN [goroutines EXCEPT ![g].pc = "Unlock", ![g].err = ErrIdChange]
               ELSE [goroutines EXCEPT ![g].pc = "store"]
        /\ UNCHANGED <<dags, mu, notConc>>

\* r.dags[id] = &updatedDAG; return nil
UpdateStore ==
    \E g \in Goroutines :
        /\ goroutines[g].pc = "store"
        /\ dags' = Put(dags, goroutines[g].id, goroutines[g].updatedDAG)
        /\ goroutines' = [goroutines EXCEPT ![g].pc = "Unlock", ![g].err = "nil"]
        /\ UNCHANGED <<mu, notConc>>

\* defer r.mu.Unlock()
UpdateUnlock ==
    \E g \in Goroutines :
        /\ goroutines[g].pc = "Unlock"
        /\ mu' = 0
        /\ goroutines' = [goroutines EXCEPT ![g].pc = "done"]
        /\ UNCHANGED <<dags, notConc>>

NextConc ==
    \/ UpdateLock \/ UpdateLookup \/ UpdateFn
    \/ UpdateCheckId \/ UpdateStore \/ UpdateUnlock

SpecConc == InitConc /\ [][NextConc]_vars

\* ------------------------------------------------------------ validation runs
\* the graphs handed to ValidateDAG: every well-formed graph over GraphNodes
\* nodes with up to GraphAnswers answers each, graphs over FaultNodes nodes
\* with malformed fields, the branched example, and nil
GraphNodeIds == 1..GraphNodes

AnswerId(n, i) == n * (GraphAnswers + 1) + i

TargetSeqs == UNION {[1..k -> 0..GraphNodes] : k \in 0..GraphAnswers}

AnswersTo(n, targets) ==
    [i \in 1..Len(targets) |-> Answer(AnswerId(n, i), "s", targets[i])]

NodesOver(S) == {[k \in S |-> NodeOf(k, "q", AnswersTo(k, t[k]))] : t \in [S -> TargetSeqs]}

StructureGraphs ==
    {[Id |-> 1, Title |-> 1, Nodes |-> ns] :
        ns \in UNION {NodesOver(S) : S \in SUBSET GraphNodeIds}}

FaultyAnswers(k) ==
    {<<>>} \cup {<<Answer(aid, st, nx)>> :
                    aid \in {0, AnswerId(k, 1)}, st \in {"", "s"}, nx \in {0, k, GraphNodes + 1}}

FaultyNodes(k) ==
    {NodeOf(id, q, as) : id \in {k, k + 1}, q \in {"", "q"}, as \in FaultyAnswers(k)}

FaultyGraphs ==
    {[Id |-> i, Title |-> t, Nodes |-> ns] :
        i \in {0, 1}, t \in {0, 1},
        ns \in UNION {{f \in [S -> UNION {FaultyNodes(k) : k \in S}] :
                          \A k \in S : f[k] \in FaultyNodes(k)} : S \in SUBSET (1..FaultNodes)}}

\* root -> A, root -> B, A -> C; B has one terminal answer, C has no answers
ExampleGraph ==
    [Id |-> 1, Title |-> 1,
     Nodes |-> [k \in 1..4 |->
        CASE k = 1 -> NodeOf(1, "q", <<Answer(11, "s", 2), Answer(12, "s", 3)>>)
          [] k = 2 -> NodeOf(2, "q", <<Answer(21, "s", 4)>>)
          [] k = 3 -> NodeOf(3, "q", <<Answer(31, "s", 0)>>)
          [] k = 4 -> NodeOf(4, "q", <<>>)]]

ValidatorInputs ==
    {NilPtr} \cup {Ptr(d) : d \in StructureGraphs \cup FaultyGraphs \cup {ExampleGraph}}

InitValidate ==
    /\ graph \in ValidatorInputs
    /\ report = ValidationResult
    /\ vpc = "ValidateDAG"
    /\ dags = EmptyMap
    /\ files = EmptyMap
    /\ writeThrough = FALSE
    /\ initialized = FALSE
    /\ ioFailed = FALSE
    /\ last = Call("New", 0, NoFn, "nil", "", 0)
    /\ created = {}
    /\ NoGoroutines
    /\ NoWalk

notVal ==
    <<dags, files, writeThrough, initialized, ioFailed, last, created, concVars, graph, walkVars>>

\* ValidateDAG up to its first call: the result is set up and a nil graph reported
StepEnter ==
    /\ vpc = "ValidateDAG"
    /\ report' = IF graph.nil THEN ValidateDAG(graph, <<>>) ELSE ValidationResult
    /\ vpc' = IF graph.nil THEN "done" ELSE "validateBasicStructure"
    /\ UNCHANGED notVal

StepBasicStructure ==
    /\ vpc = "validateBasicStructure"
    /\ report' = validateBasicStructure(graph.dag, report)
    /\ vpc' = "validateNodes"
    /\ UNCHANGED notVal

StepNodes ==
    /\ vpc = "validateNodes"
    /\ \E ord \in Orders(DOMAIN graph.dag.Nodes) :
          report' = validateNodes(graph.dag, ord, report)
    /\ vpc' = "validateRootNode"
    /\ UNCHANGED notVal

StepRootNode ==
    /\ vpc = "validateRootNode"
    /\ \E ord \in Orders(DOMAIN graph.dag.Nodes) :
          report' = validateRootNode(graph.dag, ord, report)
    /\ vpc' = "validateCycles"
    /\ UNCHANGED notVal

StepCycles ==
    /\ vpc = "validateCycles"
    /\ \E ord \in Orders(DOMAIN graph.dag.Nodes) :
          report' = validateCycles(graph.dag, ord, report)
    /\ vpc' = "calculateStatistics"
    /\ UNCHANGED notVal

StepStatistics ==
    /\ vpc = "calculateStatistics"
    /\ \E ord \in Orders(DOMAIN graph.dag.Nodes) :
          report' = calculateStatistics(graph.dag, ord, report)
    /\ vpc' = "done"
    /\ UNCHANGED notVal

NextValidate ==
    \/ StepEnter \/ StepBasicStructure \/ StepNodes
    \/ StepRootNode \/ StepCycles \/ StepStatistics

SpecValidate == InitValidate /\ [][NextValidate]_vars

\* ------------------------------------------------------------ walks
\* Walk over the well-formed graphs on WalkNodes nodes, from any start
\* identifier, with a strategy that may return any answer or fail
WalkGraphs ==
    {[Id |-> 1, Title |-> 1, Nodes |-> ns] :
        ns \in UNION {NodesOver(S) : S \in SUBSET (1..WalkNodes)}}

AnswersOf(node) == {node.Answers[i] : i \in 1..Len(node.Answers)}

\* the values fnAnswer(node) can return: one of the node's answers, one of them
\* carrying another next_node, an answer of another node, the zero Answer, an error
Strategy(d, node) ==
    {Selection(a, FALSE) :
        a \in AnswersOf(node)
              \cup {[b EXCEPT !.NextNode = t] : b \in AnswersOf(node), t \in 0..GraphNodes}
              \cup UNION {AnswersOf(d.Nodes[k]) : k \in DOMAIN d.Nodes}
              \cup {Answer(0, "", 0)}}
    \cup {Selection(Answer(0, "", 0), TRUE)}

InitWalk ==
    /\ graph \in {Ptr(d) : d \in WalkGraphs}
    /\ impl \in {"backend/internal/dag", "internal/dag"}
    /\ walkStart \in 1..(WalkNodes + 1)
    /\ walkNode = walkStart
    /\ walkPath = <<>>
    /\ asked = 0
    /\ selected = NoSelection
    /\ wstate = "AtNode"
    /\ werr = "nil"
    /\ report = ValidationResult
    /\ vpc = "idle"
    /\ dags = EmptyMap
    /\ files = EmptyMap
    /\ writeThrough = FALSE
    /\ initialized = FALSE
    /\ ioFailed = FALSE
    /\ last = Call("New", 0, NoFn, "nil", "", 0)
    /\ created = {}
    /\ NoGoroutines

notWalk ==
    <<dags, files, writeThrough, initialized, ioFailed, last, created, concVars, valVars,
      impl, walkStart>>

\* one iteration of the for loop of Walk
WalkStep ==
    /\ wstate = "AtNode"
    /\ Len(walkPath) < MaxPath
    /\ \E sel \in Strategy(graph.dag, GetNode(graph.dag, walkNode).node) :
          LET r == IF impl = "internal/dag"
                   THEN WalkIterationValid(graph.dag, walkNode, walkPath, sel)
                   ELSE WalkIteration(graph.dag, walkNode, walkPath, sel)
          IN /\ wstate' = r.state
             /\ werr' = r.err
             /\ walkNode' = r.current
             /\ walkPath' = r.path
             /\ asked' = IF r.called THEN asked + 1 ELSE asked
             /\ selected' = IF r.called THEN sel ELSE selected
    /\ UNCHANGED notWalk

NextWalk == WalkStep

SpecWalk == InitWalk /\ [][NextWalk]_vars

\* ------------------------------------------------------------ concurrent File Updates
\* NumGoroutines goroutines call FileDAGRepository.Update at once on a
\* directory of well-formed documents of freshly created graphs
Directories ==
    UNION {{f \in [S -> UNION {Marshalled(NewDAG(i, t)) : i \in S, t \in Titles}] :
               \A i \in S : f[i].id = i} : S \in SUBSET DagIds}

InitFileConc ==
    /\ files \in Directories
    /\ before = files
    /\ mu = 0
    /\ goroutines \in [Goroutines ->
           {Goroutine("Get", id, fn, NilDAG, NilDAG, "nil") : id \in DagIds, fn \in Transforms}]
    /\ dags = EmptyMap
    /\ writeThrough = FALSE
    /\ initialized = FALSE
    /\ ioFailed = FALSE
    /\ last = Call("New", 0, NoFn, "nil", "", 0)
    /\ created = {}
    /\ NoValidation
    /\ NoWalk

notFileConc ==
    <<dags, writeThrough, initialized, ioFailed, last, created, mu, before, valVars, walkVars>>

\* existingDAG, err := r.Get(ctx, id)
FileUpdateGet ==
    \E g \in Goroutines :
        /\ goroutines[g].pc = "Get"
        /\ LET r == FileGet(files, goroutines[g].id, "none") IN
           goroutines' =
               IF r.err # "nil"
               THEN [goroutines EXCEPT ![g].pc = "done", ![g].err = r.err]
               ELSE [goroutines EXCEPT ![g].pc = "fnUpdate", ![g].existingDAG = r.dag]
        /\ UNCHANGED <<files, notFileConc>>

\* updatedDAG, err := fnUpdate(*existingDAG)
FileUpdateFn ==
    \E g \in Goroutines :
        /\ goroutines[g].pc = "fnUpdate"
        /\ LET r == Apply(goroutines[g].fn, goroutines[g].existingDAG) IN
           goroutines' =
               IF r.failed
               THEN [goroutines EXCEPT ![g].pc = "done", ![g].err = ErrFn]
               ELSE [goroutines EXCEPT ![g].pc = "checkId", ![g].updatedDAG = r.dag]
        /\ UNCHANGED <<files, notFileConc>>

\* if updatedDAG.Id != existingDAG.Id
FileUpdateCheckId ==
    \E g \in Goroutines :
        /\ goroutines[g].pc = "checkId"
        /\ goroutines' =
               IF goroutines[g].updatedDAG.Id # goroutines[g].existingDAG.Id
               THEN [goroutines EXCEPT ![g].pc = "done", ![g].err = ErrIdChange]
               ELSE [goroutines EXCEPT ![g].pc = "WriteFile"]
        /\ UNCHANGED <<files, notFileConc>>

\* os.WriteFile(dagFile, data, 0644): the file is opened and truncated
FileUpdateTruncate ==
    \E g \in Goroutines :
        /\ goroutines[g].pc = "WriteFile"
        /\ LET r == FileUpdateOpen(files, goroutines[g]) IN
           /\ files' = r.files
           /\ goroutines' =
                  IF r.err # "nil"
                  THEN [goroutines EXCEPT ![g].pc = "done", ![g].err = r.err]
                  ELSE [goroutines EXCEPT ![g].pc = "write"]
        /\ UNCHANGED notFileConc

\* os.WriteFile: the data is written; return nil
FileUpdateWrite ==
    \E g \in Goroutines :
        /\ goroutines[g].pc = "write"
        /\ \E doc \in Marshalled(goroutines[g].updatedDAG) :
              files' \in WriteData(files, goroutines[g].id, doc)
        /\ goroutines' = [goroutines EXCEPT ![g].pc = "done", ![g].err = "nil"]
        /\ UNCHANGED notFileConc

NextFileConc ==
    \/ FileUpdateGet \/ FileUpdateFn \/ FileUpdateCheckId
    \/ FileUpdateTruncate \/ FileUpdateWrite

SpecFileConc == InitFileConc /\ [][NextFileConc]_vars

\* ------------------------------------------------------------ concurrent Hybrid Creates
\* a goroutine in HybridDAGRepository.Create(dagObj): pc is the statement it is
\* about to execute, err what it returns
Creating(pc, dagObj, err) == [pc |-> pc, dagObj |-> dagObj, err |-> err]

\* NumGoroutines goroutines call HybridDAGRepository.Create at once on a
\* repository whose Memory holds the graphs of its documents
InitCreateConc ==
    /\ files \in Directories
    /\ dags = [i \in DOMAIN files |-> UnmarshalJSON(files[i])]
    /\ before = dags
    /\ mu = 0
    /\ writeThrough \in BOOLEAN
    /\ goroutines \in [Goroutines -> {Creating("memoryRepo.Create", d, "nil") : d \in InputDAGs}]
    /\ initialized = TRUE
    /\ ioFailed = FALSE
    /\ last = Call("New", 0, NoFn, "nil", "", 0)
    /\ created = {}
    /\ NoValidation
    /\ NoWalk

notCreateConc ==
    <<writeThrough, initialized, ioFailed, last, created, mu, before, valVars, walkVars>>

\* err := r.memoryRepo.Create(ctx, dagObj), which runs under the store's lock;
\* if r.writeThrough
CreateMemory ==
    \E g \in Goroutines :
        /\ goroutines[g].pc = "memoryRepo.Create"
        /\ dags' = MemCreate(dags, goroutines[g].dagObj).dags
        /\ goroutines' =
               [goroutines EXCEPT ![g].pc = IF writeThrough THEN "os.Stat" ELSE "done"]
        /\ UNCHANGED <<files, notCreateConc>>

\* fileRepo.Create: if _, err := os.Stat(dagFile); err == nil
CreateStat ==
    \E g \in Goroutines :
        /\ goroutines[g].pc = "os.Stat"
        /\ goroutines' =
               IF goroutines[g].dagObj.Id \in DOMAIN files
               THEN [goroutines EXCEPT ![g].pc = "memoryRepo.Delete", ![g].err = ErrExists]
               ELSE [goroutines EXCEPT ![g].pc = "WriteFile"]
        /\ UNCHANGED <<dags, files, notCreateConc>>

\* fileRepo.Create: os.WriteFile(dagFile, data, 0644), the file is created or truncated
CreateTruncate ==
    \E g \in Goroutines :
        /\ goroutines[g].pc = "WriteFile"
        /\ files' = Put(files, goroutines[g].dagObj.Id, Corrupt)
        /\ goroutines' = [goroutines EXCEPT ![g].pc = "write"]
        /\ UNCHANGED <<dags, notCreateConc>>

\* fileRepo.Create: os.WriteFile, the data is written; Create returns nil
CreateWrite ==
    \E g \in Goroutines :
        /\ goroutines[g].pc = "write"
        /\ \E doc \in Marshalled(goroutines[g].dagObj) :
              files' \in WriteData(files, goroutines[g].dagObj.Id, doc)
        /\ goroutines' = [goroutines EXCEPT ![g].pc = "done", ![g].err = "nil"]
        /\ UNCHANGED <<dags, notCreateConc>>

\* deleteErr := r.memoryRepo.Delete(ctx, dagObj.Id); return the file error
CreateRollback ==
    \E g \in Goroutines :
        /\ goroutines[g].pc = "memoryRepo.Delete"
        /\ dags' = MemDelete(dags, goroutines[g].dagObj.Id).dags
        /\ goroutines' = [goroutines EXCEPT ![g].pc = "done"]
        /\ UNCHANGED <<files, notCreateConc>>

NextCreateConc ==
    \/ CreateMemory \/ CreateStat \/ CreateTruncate \/ CreateWrite \/ CreateRollback

SpecCreateConc == InitCreateConc /\ [][NextCreateConc]_vars

\* ------------------------------------------------------------ UpdateDAGUseCase.Execute
\* Execute called, one call after the other, on a store of freshly created
\* graphs, with payloads of up to WalkNodes nodes of at most one answer each
PayloadGraphs ==
    {[Id |-> i, Title |-> 1, Nodes |-> ns] :
        i \in DagIds,
        ns \in UNION {{n \in NodesOver(S) : \A k \in S : Len(n[k].Answers) <= 1} :
                        S \in SUBSET (1..WalkNodes)}}

\* the DAGId strings of a command: empty, the text of an identifier, not a UUID
DAGIdStrings == {<<>>} \cup {UUIDString(i) : i \in DagIds} \cup {<<1, 1>>}

InitExecute ==
    /\ dags \in Stores
    /\ graph = NilPtr
    /\ report = ValidationResult
    /\ vpc = "idle"
    /\ files = EmptyMap
    /\ writeThrough = FALSE
    /\ initialized = FALSE
    /\ ioFailed = FALSE
    /\ last = Call("New", 0, NoFn, "nil", "", 0)
    /\ created = {}
    /\ NoGoroutines
    /\ NoWalk

notExecute ==
    <<files, writeThrough, initialized, ioFailed, created, concVars, report, vpc, walkVars>>

\* the iteration orders the validator can take on the payload of a command;
\* they are drawn only where Execute gets as far as validateDAGStructure
PayloadOrders(m, cmd) ==
    LET phases == {"nodes", "roots", "cycles", "statistics"}
        reached == /\ ~cmd.DAG.nil
                   /\ ~UUIDParse(cmd.DAGId).err
                   /\ UUIDParse(cmd.DAGId).id \in DOMAIN m
                   /\ cmd.DAG.dag.Id = UUIDParse(cmd.DAGId).id
    IN IF reached THEN [phases -> Orders(DOMAIN cmd.DAG.dag.Nodes)]
       ELSE {[p \in phases |-> <<>>]}

\* one call of Execute; graph keeps the payload it was given. The client
\* stops at its first rejected command: what Execute does depends on the
\* store and the command only, so a call after a rejection that left the
\* store alone is a call already taken.
ExecuteCall ==
    /\ last.err = "nil"
    /\ \E DAGId \in DAGIdStrings, DAG \in {NilPtr} \cup {Ptr(d) : d \in PayloadGraphs} :
        \E ords \in PayloadOrders(dags, Cmd(DAGId, DAG)) :
          LET r == Execute(dags, Cmd(DAGId, DAG), ords) IN
            /\ dags' = r.dags
            /\ graph' = DAG
            /\ last' = Call("Execute", r.id, NoFn, r.err, "", 0)
            /\ UNCHANGED notExecute

NextExecute == ExecuteCall

SpecExecute == InitExecute /\ [][NextExecute]_vars

\* ------------------------------------------------------------ restarts
\* the Hybrid repository across process restarts over one directory, with no
\* file-system call failing; created follows what Create and Delete returned
Tracked ==
    created' =
        CASE last'.op = "Create" /\ last'.err = "nil" /\ writeThrough ->
                 created \cup {last'.id}
          [] last'.op = "Delete" /\ last'.err = "nil" -> created \ {last'.id}
          [] OTHER -> created

Restart == NewCall /\ Tracked /\ UNCHANGED outside

TrackedInitialize == InitializeCall /\ ~ioFailed' /\ Tracked /\ UNCHANGED outside

TrackedSync == SyncCall /\ ~ioFailed' /\ Tracked /\ UNCHANGED outside

TrackedCreate == CreateCall /\ ~ioFailed' /\ Tracked /\ UNCHANGED outside

TrackedUpdate == UpdateCall /\ ~ioFailed' /\ Tracked /\ UNCHANGED outside

TrackedDelete == DeleteCall /\ ~ioFailed' /\ Tracked /\ UNCHANGED outside

NextRestart ==
    \/ Restart \/ TrackedInitialize \/ TrackedSync
    \/ TrackedCreate \/ TrackedUpdate \/ TrackedDelete

SpecRestart == Init /\ [][NextRestart]_vars

\* ------------------------------------------------------------ properties

\* Memory and File agree on identity id: the document is a serialisation of the graph
SameGraph(m, f, id) == id \in DOMAIN m /\ id \in DOMAIN f /\ f[id] \in Marshalled(m[id])

NoCorruptFiles == \A i \in DOMAIN files : files[i].ok

\* C1: with write-through enabled, when the File create of Hybrid.Create fails
\* after the Memory insert succeeded, Create returns an error and Memory does
\* not contain the identity when the call returns.
C1_CreateRollsBack ==
    (last.op = "Create" /\ last.stage = "file")
        => (writeThrough /\ last.err # "nil" /\ last.id \notin DOMAIN dags)

W_C1 == last.op = "Create" /\ last.stage = "file" /\ last.err = ErrInternal

\* C2: with write-through enabled, a Hybrid.Create that fails at the File tier
\* leaves Memory holding exactly the identities and graphs it held before the
\* call, whatever the pre-call state.
CX_C2 == [][(last'.op = "Create" /\ last'.stage = "file") => dags' = dags]_vars

\* C3 as stated: after a Hybrid.Update whose File update failed, Update has
\* returned an error, Memory holds the identity, and Memory and File hold
\* different graphs for it.
CX_C3 ==
    (last.op = "Update" /\ last.stage = "file")
        => (last.err # "nil" /\ last.id \in DOMAIN dags /\ ~SameGraph(dags, files, last.id))

\* C3 amended: with write-through enabled, when the File update of
\* Hybrid.Update fails after the Memory update succeeded, Update returns an
\* error, Memory holds the transformed graph (no rollback) and File keeps the
\* document it had or a truncated one; so the tiers differ on that identity
\* whenever they agreed before the call and the transform changed the graph.
C3_UpdateNotRolledBack ==
    [][(last'.op = "Update" /\ last'.stage = "file")
        => LET id == last'.id IN
           /\ writeThrough
           /\ last'.err # "nil"
           /\ id \in DOMAIN dags /\ id \in DOMAIN dags'
           /\ dags'[id] = Apply(last'.fn, dags[id]).dag
           /\ id \in DOMAIN files
           /\ files' \in {files, Put(files, id, Corrupt)}
           /\ (SameGraph(dags, files, id) /\ dags'[id] # dags[id])
                  => ~SameGraph(dags', files', id)]_vars

W_C3 ==
    /\ last.op = "Update" /\ last.stage = "file" /\ last.err = ErrInternal
    /\ last.fn.kind = "SetTitle"
    /\ last.id \in DOMAIN dags /\ dags[last.id].Title = last.fn.n
    /\ last.id \in DOMAIN files /\ files[last.id].ok /\ files[last.id].title # last.fn.n

\* C4: with write-through enabled, when the File delete of Hybrid.Delete fails
\* after the Memory delete succeeded, Delete returns an error, the identity
\* stays removed from Memory and File still holds its document.
C4_DeleteNotRolledBack ==
    [][(last'.op = "Delete" /\ last'.stage = "file")
        => LET id == last'.id IN
           /\ writeThrough
           /\ last'.err # "nil"
           /\ id \in DOMAIN dags /\ id \notin DOMAIN dags'
           /\ id \in DOMAIN files /\ files' = files]_vars

W_C4 ==
    /\ last.op = "Delete" /\ last.stage = "file" /\ last.err = ErrInternal
    /\ last.id \notin DOMAIN dags /\ last.id \in DOMAIN files

\* C5: Initialize on a fresh repository, over a directory of N well-formed and
\* M corrupted documents and with no I/O failure, returns no error, leaves
\* exactly the N well-formed graphs in Memory and skips the M corrupted ones.
C5_InitializeSkipsCorrupt ==
    [][(last'.op = "Initialize" /\ dags = EmptyMap /\ ~ioFailed')
        => LET wellFormed == {i \in DOMAIN files : files[i].ok} IN
           /\ last'.err = "nil"
           /\ DOMAIN dags' = wellFormed
           /\ \A i \in wellFormed : dags'[i] = UnmarshalJSON(files[i])
           /\ last'.skipped = Cardinality(DOMAIN files \ wellFormed)]_vars

W_C5 ==
    /\ last.op = "Initialize" /\ ~ioFailed /\ last.err = "nil"
    /\ last.skipped = 1 /\ Cardinality(DOMAIN dags) = 1
    /\ \E i \in DOMAIN files : i < CHOOSE j \in DOMAIN dags : TRUE

\* C6: with write-through enabled and no I/O failure, from Initialize over a
\* directory of well-formed documents on, after any sequence of Hybrid Create,
\* Update and Delete calls Memory and File hold the same identities and
\* GetStats reports MemoryDAGCount = FileDAGCount.
CX_C6 ==
    (writeThrough /\ initialized /\ ~ioFailed /\ NoCorruptFiles)
        => /\ DOMAIN dags = DOMAIN files
           /\ GetStats(FALSE).MemoryDAGCount = GetStats(FALSE).FileDAGCount

\* C7: in the File, In-Memory and Hybrid tiers, Create for an identity that is
\* already stored returns an already-exists error and leaves the graph stored
\* under that identity unchanged.
CX_C7 ==
    [][/\ (last'.op = "File.Create" /\ last'.id \in DOMAIN files)
            => (last'.err = ErrExists /\ files' = files)
       /\ (last'.op = "Memory.Create" /\ last'.id \in DOMAIN dags)
            => (last'.err = ErrExists /\ dags' = dags)
       /\ (last'.op = "Create" /\ last'.id \in DOMAIN dags)
            => (last'.err = ErrExists /\ dags' = dags /\ files' = files)]_vars

\* C8: in the File and In-Memory tiers, an Update whose transform returns a
\* graph with a different identity returns an InvalidCommand error, leaves the
\* graph stored under the original identity unchanged and stores nothing under
\* the new identity.
C8_UpdateRejectsIdChange ==
    [][/\ (/\ last'.op = "Memory.Update" /\ last'.id \in DOMAIN dags
           /\ ~Apply(last'.fn, dags[last'.id]).failed
           /\ Apply(last'.fn, dags[last'.id]).dag.Id # dags[last'.id].Id)
            => (IsInvalidCommand(last'.err) /\ dags' = dags)
       /\ (/\ last'.op = "File.Update" /\ ~ioFailed'
           /\ last'.id \in DOMAIN files /\ files[last'.id].ok
           /\ ~Apply(last'.fn, UnmarshalJSON(files[last'.id])).failed
           /\ Apply(last'.fn, UnmarshalJSON(files[last'.id])).dag.Id # files[last'.id].id)
            => (IsInvalidCommand(last'.err) /\ files' = files)]_vars

W_C8 ==
    /\ last.op \in {"Memory.Update", "File.Update"} /\ last.err = ErrIdChange
    /\ last.fn.kind = "ChangeId" /\ last.fn.n # last.id
    /\ last.fn.n \notin DOMAIN dags /\ last.fn.n \notin DOMAIN files

\* C9: in the File and In-Memory tiers, Get, Update and Delete for an identity
\* that is not stored return NotFound and leave the tier unchanged (Update
\* stores no result of the transform), and after a successful Delete a Get of
\* that identity returns NotFound.
C9_NotFound ==
    [][/\ (last'.op \in {"Memory.Get", "Memory.Update", "Memory.Delete"}
              /\ last'.id \notin DOMAIN dags)
            => (last'.err = ErrNotFound /\ dags' = dags)
       /\ (last'.op \in {"File.Get", "File.Update", "File.Delete"}
              /\ last'.id \notin DOMAIN files)
            => (last'.err = ErrNotFound /\ files' = files)
       /\ (last'.op = "Memory.Delete" /\ last'.err = "nil")
            => MemGet(dags', last'.id).err = ErrNotFound
       /\ (last'.op = "File.Delete" /\ last'.err = "nil")
            => FileGet(files', last'.id, "none").err = ErrNotFound]_vars

W_C9 ==
    /\ last.op \in {"Memory.Update", "File.Update"} /\ last.err = ErrNotFound
    /\ last.fn.kind = "AddNode"
    /\ last.id \notin DOMAIN dags /\ last.id \notin DOMAIN files

\* C10: after a Sync in which no File operation failed, every identity in
\* Memory has a File document that is the serialisation of the Memory graph.
C10_SyncPushesMemory ==
    (last.op = "Sync" /\ last.skipped = 0)
        => \A id \in DOMAIN dags : SameGraph(dags, files, id)

W_C10 ==
    /\ last.op = "Sync" /\ last.skipped = 0 /\ ~writeThrough
    /\ Cardinality(DOMAIN dags) = NumDags

RECURSIVE Serial(_, _, _)
Serial(m, ord, errs) ==
    IF ord = <<>> THEN [dags |-> m, errs |-> errs]
    ELSE LET g == Head(ord)
             r == MemUpdate(m, goroutines[g].id, goroutines[g].fn)
         IN Serial(r.dags, Tail(ord), [errs EXCEPT ![g] = r.err])

AllReturned == \A g \in Goroutines : goroutines[g].pc = "done"

\* C12: in the In-Memory tier Update is an atomic read-modify-write: once
\* concurrent Update calls have all returned, the store and the errors they
\* returned are those of running the calls one after the other in some
\* order; so when two calls on one identity both succeed the stored graph is
\* one transform applied to the result of the other, and no update is lost.
C12_UpdateAtomic ==
    AllReturned
        => \E ord \in Orders(Goroutines) :
              LET s == Serial(before, ord, [g \in Goroutines |-> "nil"]) IN
              /\ dags = s.dags
              /\ \A g \in Goroutines : goroutines[g].err = s.errs[g]

W_C12 ==
    /\ AllReturned
    /\ \E g, h \in Goroutines :
          /\ g # h /\ goroutines[g].id = goroutines[h].id
          /\ goroutines[g].err = "nil" /\ goroutines[h].err = "nil"
          /\ goroutines[g].fn.kind = "SetTitle" /\ goroutines[h].fn.kind = "AddNode"
          /\ LET id == goroutines[g].id IN
             /\ before[id].Title # goroutines[g].fn.n
             /\ dags[id].Title = goroutines[g].fn.n
             /\ goroutines[h].fn.n \in DOMAIN dags[id].Nodes

\* the next_node references of graph d, as pairs <<node key, referenced id>>
Edges(d) ==
    UNION {{<<k, d.Nodes[k].Answers[i].NextNode>> :
               i \in {j \in 1..Len(d.Nodes[k].Answers) : d.Nodes[k].Answers[j].NextNode # 0}} :
              k \in DOMAIN d.Nodes}

\* the node ids no answer refers to
Unreferenced(d) == {k \in DOMAIN d.Nodes : \A e \in Edges(d) : e[2] # k}

\* the ids reachable from the set S along the references E
RECURSIVE Reach(_, _)
Reach(E, S) ==
    LET n == S \cup {e[2] : e \in {x \in E : x[1] \in S}} IN
    IF n = S THEN S ELSE Reach(E, n)

\* the references of d contain a directed cycle
Cyclic(d) == \E e \in Edges(d) : e[1] \in Reach(Edges(d), {e[2]})

\* the number of breadth-first levels below the frontier, k levels down from the root
RECURSIVE Levels(_, _, _, _)
Levels(E, seen, frontier, k) ==
    LET next == {e[2] : e \in {x \in E : x[1] \in frontier}} \ seen IN
    IF next = {} THEN k ELSE Levels(E, seen \cup next, next, k + 1)

Codes(r) == {r.Errors[i].Code : i \in 1..Len(r.Errors)}

CountCode(r, c) == Cardinality({i \in 1..Len(r.Errors) : r.Errors[i].Code = c})

AnswerSlots(d) == UNION {{<<k, i>> : i \in 1..Len(d.Nodes[k].Answers)} : k \in DOMAIN d.Nodes}

Validated == vpc = "done" /\ ~graph.nil

\* C13: ValidateDAG reports RootNodes equal to the number of node ids no
\* answer's next_node refers to and lists exactly those ids in RootNodeIDs; it
\* reports a no-root error exactly when there is none and a multiple-roots
\* error exactly when there is more than one.
C13_RootNodes ==
    Validated
        => LET roots == Unreferenced(graph.dag)
               st == report.Statistics
           IN /\ st.RootNodes = Cardinality(roots)
              /\ Len(st.RootNodeIDs) = Cardinality(roots)
              /\ {st.RootNodeIDs[i] : i \in 1..Len(st.RootNodeIDs)}
                     = {UUIDString(k) : k \in roots}
              /\ ("DAG_NO_ROOT" \in Codes(report)) = (roots = {})
              /\ ("DAG_MULTIPLE_ROOTS" \in Codes(report)) = (Cardinality(roots) > 1)

W_C13 ==
    /\ Validated
    /\ Cardinality(DOMAIN graph.dag.Nodes) = GraphNodes
    /\ report.Statistics.RootNodes = 1
    /\ report.Statistics.RootNodeIDs = <<UUIDString(GraphNodes)>>
    /\ Codes(report) \cap {"DAG_NO_ROOT", "DAG_MULTIPLE_ROOTS"} = {}

\* C14: ValidateDAG sets HasCycles exactly when the next_node references
\* contain a directed cycle (a self-reference included); when HasCycles is
\* set, IsValid is false and CyclePaths holds a path whose first and last
\* entries are the same node id.
C14_HasCycles ==
    Validated
        => LET st == report.Statistics IN
           /\ st.HasCycles = Cyclic(graph.dag)
           /\ st.HasCycles
                => /\ ~report.IsValid
                   /\ \E i \in 1..Len(st.CyclePaths) :
                         /\ Len(st.CyclePaths[i]) >= 2
                         /\ st.CyclePaths[i][1] = st.CyclePaths[i][Len(st.CyclePaths[i])]

W_C14 ==
    /\ Validated
    /\ report.Statistics.HasCycles /\ ~report.IsValid
    /\ report.Statistics.RootNodes = 1
    /\ \E i \in 1..Len(report.Statistics.CyclePaths) :
          Len(report.Statistics.CyclePaths[i]) = 3

CX_C16 ==
    (vpc = "done" /\ graph = Ptr(ExampleGraph))
        => /\ report.Statistics.TotalNodes = 3
           /\ report.Statistics.RootNodes = 1
           /\ report.Statistics.LeafNodes = 2
           /\ report.Statistics.MaxDepth = 2
           /\ report.Statistics.HasCycles = FALSE

\* C16 amended: the graph root -> A, root -> B, A -> C has four nodes, and
\* ValidateDAG reports TotalNodes=4, RootNodes=1, LeafNodes=2, MaxDepth=2 and
\* HasCycles=false for it.
C16_Example ==
    (vpc = "done" /\ graph = Ptr(ExampleGraph))
        => /\ report.Statistics.TotalNodes = 4
           /\ report.Statistics.RootNodes = 1
           /\ report.Statistics.LeafNodes = 2
           /\ report.Statistics.MaxDepth = 2
           /\ report.Statistics.HasCycles = FALSE

W_C16 == vpc = "done" /\ graph = Ptr(ExampleGraph) /\ report.IsValid

\* C17: ValidateDAG accumulates every finding: for a non-nil graph each
\* violated check (empty identity, empty title, no nodes, key mismatch, empty
\* question, invalid answer id, empty statement, dangling reference, root
\* count, cycle) has its error in the one report, once per offending node or
\* answer; IsValid is true exactly when the error list is empty; TotalNodes
\* and TotalAnswers are reported for valid and invalid graphs alike; a nil
\* graph yields exactly one error and nothing else.
C17_Accumulates ==
    /\ report.IsValid = (report.Errors = <<>>)
    /\ Validated
        => LET d == graph.dag
               slots == AnswerSlots(d)
               n(S) == Cardinality(S)
               b(P) == IF P THEN 1 ELSE 0
           IN /\ CountCode(report, "DAG_INVALID_ID") = b(d.Id = 0)
              /\ CountCode(report, "DAG_EMPTY_TITLE") = b(d.Title = 0)
              /\ CountCode(report, "DAG_NO_NODES") = b(DOMAIN d.Nodes = {})
              /\ CountCode(report, "NODE_ID_MISMATCH")
                     = n({k \in DOMAIN d.Nodes : d.Nodes[k].Id # k})
              /\ CountCode(report, "NODE_EMPTY_QUESTION")
                     = n({k \in DOMAIN d.Nodes : d.Nodes[k].Question = ""})
              /\ CountCode(report, "ANSWER_INVALID_ID")
                     = n({x \in slots : d.Nodes[x[1]].Answers[x[2]].Id = 0})
              /\ CountCode(report, "ANSWER_EMPTY_STATEMENT")
                     = n({x \in slots : d.Nodes[x[1]].Answers[x[2]].Statement = ""})
              /\ CountCode(report, "ANSWER_INVALID_REFERENCE")
                     = n({x \in slots : d.Nodes[x[1]].Answers[x[2]].NextNode
                                             \notin DOMAIN d.Nodes \cup {0}})
              /\ CountCode(report, "DAG_NO_ROOT") = b(Unreferenced(d) = {})
              /\ CountCode(report, "DAG_MULTIPLE_ROOTS") = b(n(Unreferenced(d)) > 1)
              /\ CountCode(report, "DAG_HAS_CYCLES") = b(Cyclic(d))
              /\ CountCode(report, "DAG_NULL") = 0
              /\ report.Statistics.TotalNodes = n(DOMAIN d.Nodes)
              /\ report.Statistics.TotalAnswers = n(slots)
    /\ (vpc = "done" /\ graph.nil)
        => /\ Len(report.Errors) = 1 /\ report.Errors[1].Code = "DAG_NULL"
           /\ report.Statistics = ValidationStatistics

W_C17 ==
    /\ Validated /\ ~report.IsValid
    /\ Cardinality(Codes(report)) >= 7
    /\ report.Statistics.TotalNodes = FaultNodes
    /\ report.Statistics.TotalAnswers >= 1

\* ------------------------------------------------------------ Walk claims
\* the node Walk is at, as GetNode returns it
AtNode == GetNode(graph.dag, walkNode)

\* this iteration appended an answer to the path
Accepted == Len(walkPath') = Len(walkPath) + 1

\* C18: an iteration of Walk ends in Terminal, with no error, exactly when the
\* current node has zero answers or the answer it accepted has no next-node
\* reference; at a node with zero answers the path is left as it is and the
\* strategy is not invoked, so a walk that starts at such a node returns an
\* empty path and no error after zero invocations.
C18_Terminal ==
    [][wstate = "AtNode" =>
        LET noAnswers == ~AtNode.err /\ Len(AtNode.node.Answers) = 0
            first == GetNode(graph.dag, walkStart)
        IN /\ wstate' = "Terminal"
                <=> (noAnswers \/ (Accepted /\ walkPath'[Len(walkPath')].NextNode = 0))
           /\ wstate' = "Terminal" => werr' = "nil"
           /\ noAnswers => walkPath' = walkPath /\ asked' = asked
           /\ (~first.err /\ Len(first.node.Answers) = 0)
                => wstate' = "Terminal" /\ walkPath' = <<>> /\ asked' = 0 /\ werr' = "nil"
    ]_vars

\* a walk that started at a node with zero answers has returned
W_C18 ==
    /\ wstate = "Terminal"
    /\ walkStart \in DOMAIN graph.dag.Nodes
    /\ Len(graph.dag.Nodes[walkStart].Answers) = 0
    /\ walkPath = <<>>
    /\ asked = 0
    /\ werr = "nil"

\* C19: at any iteration of Walk, when the strategy returns, without error, an
\* answer whose identifier is not among the current node's own answers, Walk
\* stops in Error with "selected answer is not valid for node" and the path is
\* left as it was; when the current node identifier (the start or a next_node
\* reference) is not in the graph, Walk stops in Error with "node not found",
\* the strategy is not invoked and the path is left as it was.
C19_Errors ==
    [][wstate = "AtNode" =>
        /\ AtNode.err
             => /\ wstate' = "Error"
                /\ werr' = ErrNodeNotFound
                /\ walkPath' = walkPath
                /\ asked' = asked
        /\ (/\ asked' = asked + 1
            /\ ~selected'.err
            /\ selected'.answer.Id \notin {a.Id : a \in AnswersOf(AtNode.node)})
             => /\ wstate' = "Error"
                /\ werr' = ErrAnswerNotValid
                /\ walkPath' = walkPath
    ]_vars

\* after one accepted answer the strategy returned an answer of another node
\* and Walk stopped with the path it had
W_C19 ==
    /\ wstate = "Error"
    /\ werr = ErrAnswerNotValid
    /\ Len(walkPath) = 1
    /\ asked = 2
    /\ walkNode \in DOMAIN graph.dag.Nodes
    /\ selected.answer \notin AnswersOf(graph.dag.Nodes[walkNode])
    /\ \E k \in DOMAIN graph.dag.Nodes : selected.answer \in AnswersOf(graph.dag.Nodes[k])

\* C20: every answer Walk appends to the path is the current node's own answer
\* with the selected identifier, next_node included, and the walk continues at
\* the next_node the graph stores for that answer, also when the strategy
\* returns an answer that carries another next_node under a valid identifier.
CX_C20 ==
    [][(wstate = "AtNode" /\ Accepted) =>
        LET entry == walkPath'[Len(walkPath')]
            own == AtNode.node.Answers[matching(AtNode.node, entry.Id)]
        IN /\ entry = own
           /\ wstate' = "Terminal" <=> own.NextNode = 0
           /\ wstate' = "AtNode" => walkNode' = own.NextNode
    ]_vars
\* ------------------------------------------------------------ tier claims
\* C22: with write-through disabled, Hybrid Create, Update and Delete leave
\* the File tier as it is, whatever they return and whatever they do to
\* Memory, and the only call of the Hybrid repository after which File differs
\* is Sync.
C22_MemoryOnly ==
    [][~writeThrough =>
        /\ last'.op \in {"Create", "Update", "Delete"} => files' = files
        /\ files' # files => last'.op = "Sync"]_vars

\* a graph was created with write-through disabled: Memory holds it, File does not
W_C22 ==
    /\ ~writeThrough
    /\ last.op = "Create" /\ last.err = "nil"
    /\ last.id \in DOMAIN dags /\ last.id \notin DOMAIN files

\* C29: Hybrid.Sync never removes a File document: after Sync File holds every
\* identity it held before, and the documents of identities that are not in
\* Memory are untouched; Initialize, when no file-system call fails, loads
\* every well-formed document into Memory, so an identity deleted from Memory
\* with write-through disabled is still in File after Sync and is in Memory
\* again after the next Initialize.
C29_SyncKeepsDocuments ==
    [][/\ last'.op = "Sync"
            => /\ DOMAIN files \subseteq DOMAIN files'
               /\ \A id \in DOMAIN files \ DOMAIN dags : files'[id] = files[id]
       /\ (last'.op = "Initialize" /\ ~ioFailed')
            => \A id \in DOMAIN files : files[id].ok => id \in DOMAIN dags']_vars

\* every document was loaded by Initialize and no file-system call has failed,
\* with write-through disabled since; Sync has run while Memory lacks an
\* identity that File holds, which only a Delete can have removed
W_C29 ==
    /\ last.op = "Sync"
    /\ initialized /\ ~writeThrough /\ ~ioFailed /\ NoCorruptFiles
    /\ DOMAIN dags # {}
    /\ DOMAIN files \ DOMAIN dags # {}
\* C27: with write-through enabled, an identity whose Hybrid.Create returned
\* success stays retrievable through Hybrid.Get across every Create, Update
\* and Delete call, rejected calls for the same identity included, other than
\* a Hybrid.Delete of that identity that returns success.
CX_C27 ==
    [][\A id \in created :
          (/\ writeThrough
           /\ HybridGet(id).err = "nil"
           /\ last'.op \in {"Create", "Update", "Delete"}
           /\ ~(last'.op = "Delete" /\ last'.id = id /\ last'.err = "nil"))
            => MemGet(dags', id).err = "nil"]_vars
\* ------------------------------------------------------------ validator claims, continued
\* the simple cycles of d's references, each as the sequence of its nodes
\* starting at its smallest node
SimpleCycles(d) ==
    LET N == DOMAIN d.Nodes IN
    {c \in UNION {[1..k -> N] : k \in 1..Cardinality(N)} :
        /\ \A i, j \in DOMAIN c : i # j => c[i] # c[j]
        /\ \A i \in DOMAIN c : c[1] <= c[i]
        /\ \A i \in DOMAIN c : <<c[i], c[(i % Len(c)) + 1]>> \in Edges(d)}

NodesOn(c) == {c[i] : i \in DOMAIN c}

\* C24: when the graph contains several distinct cycles (no node on two of
\* them), ValidateDAG reports each of them: CyclePaths has one entry per
\* cycle, whatever the order in which nodes and answers are visited and
\* whether or not one cycle is reachable from another.
CX_C24 ==
    (/\ Validated
     /\ Cardinality(SimpleCycles(graph.dag)) >= 2
     /\ \A c1, c2 \in SimpleCycles(graph.dag) : c1 # c2 => NodesOn(c1) \cap NodesOn(c2) = {})
        => Len(report.Statistics.CyclePaths) = Cardinality(SimpleCycles(graph.dag))
\* the elements of S in ascending order
RECURSIVE Ascending(_)
Ascending(S) ==
    IF S = {} THEN <<>>
    ELSE LET m == CHOOSE x \in S : \A y \in S : x <= y IN <<m>> \o Ascending(S \ {m})

\* what two reports are compared on
Summary(r) ==
    [IsValid |-> r.IsValid, Codes |-> Codes(r),
     RootNodes |-> r.Statistics.RootNodes, LeafNodes |-> r.Statistics.LeafNodes,
     TotalNodes |-> r.Statistics.TotalNodes, TotalAnswers |-> r.Statistics.TotalAnswers,
     HasCycles |-> r.Statistics.HasCycles, MaxDepth |-> r.Statistics.MaxDepth,
     CyclePaths |-> Len(r.Statistics.CyclePaths)]

\* the report of the run that visits the node map in ascending order throughout
Reference ==
    LET asc == Ascending(DOMAIN graph.dag.Nodes) IN
    ValidateDAG(graph, [nodes |-> asc, roots |-> asc, cycles |-> asc, statistics |-> asc])

\* C30: ValidateDAG is deterministic in its input graph: every run on a graph,
\* whatever the orders in which it visits the node map, reports the same
\* IsValid, set of error codes, RootNodes, LeafNodes, TotalNodes,
\* TotalAnswers, HasCycles, MaxDepth and number of CyclePaths as the run that
\* visits the map in ascending order.
CX_C30 == Validated => Summary(report) = Summary(Reference)
\* ------------------------------------------------------------ Walk claims, continued
AllAnswers(d) == UNION {AnswersOf(d.Nodes[k]) : k \in DOMAIN d.Nodes}

\* following answer a from node n stays on a cycle through n
OnCycle(d, n, a) == a.NextNode # 0 /\ n \in Reach(Edges(d), {a.NextNode})

\* C25: Walk has no cycle protection of its own: whenever the strategy
\* returns one of the current node's answers that stays on a cycle through
\* that node, Walk appends it and goes on at a node that is on a cycle again,
\* in neither Terminal nor Error; so under such a strategy the path grows at
\* every iteration, past the number of nodes of the graph.
C25_NoCycleProtection ==
    [][(/\ wstate = "AtNode"
        /\ asked' = asked + 1
        /\ ~selected'.err
        /\ selected'.answer \in AnswersOf(AtNode.node)
        /\ OnCycle(graph.dag, walkNode, selected'.answer))
        => /\ wstate' = "AtNode"
           /\ walkNode' = selected'.answer.NextNode
           /\ walkPath' = Append(walkPath, selected'.answer)
           /\ \E a \in AnswersOf(GetNode(graph.dag, walkNode').node) :
                 OnCycle(graph.dag, walkNode', a)
    ]_vars

\* a walk still going after more answers than the graph has nodes, every one
\* of them an answer of the graph that stays on a cycle
W_C25 ==
    /\ wstate = "AtNode"
    /\ Len(walkPath) = MaxPath
    /\ Len(walkPath) > Cardinality(DOMAIN graph.dag.Nodes)
    /\ \A i \in 1..Len(walkPath) :
          /\ walkPath[i] \in AllAnswers(graph.dag)
          /\ walkPath[i].NextNode \in Reach(Edges(graph.dag), {walkPath[i].NextNode} \ {0})
          /\ OnCycle(graph.dag, walkPath[i].NextNode, walkPath[i])

\* the graph is one ValidateDAG reports valid and Walk started at the root it reports
FromValidRoot ==
    /\ wstate # "idle"
    /\ Reference.IsValid
    /\ walkStart = UUIDParse(Reference.Statistics.RootNodeIDs[1]).id

\* every call of the strategy returned one of the current node's answers, unmodified
Honest ==
    /\ asked = Len(walkPath)
    /\ \A i \in 1..Len(walkPath) : walkPath[i] \in AllAnswers(graph.dag)

\* C26: on a graph that ValidateDAG reports valid, a Walk started at the
\* reported root whose strategy returns answers of the current node unmodified
\* never stops in Error, has fewer than TotalNodes answers on its path while it
\* is still at a node, and so ends in Terminal with at most TotalNodes answers.
C26_ValidTerminates ==
    (FromValidRoot /\ Honest)
        => /\ wstate \in {"AtNode", "Terminal"}
           /\ werr = "nil"
           /\ Len(walkPath) <= Reference.Statistics.TotalNodes
           /\ wstate = "AtNode" => Len(walkPath) < Reference.Statistics.TotalNodes

\* a walk of a valid graph from its root that ended with one answer per node
W_C26 ==
    /\ FromValidRoot /\ Honest
    /\ wstate = "Terminal"
    /\ Reference.Statistics.TotalNodes = WalkNodes
    /\ Len(walkPath) = Reference.Statistics.TotalNodes
\* ------------------------------------------------------------ concurrency claims
\* goroutine g read the document the directory held when the calls were issued
ReadOriginal(g) ==
    /\ goroutines[g].id \in DOMAIN before
    /\ goroutines[g].existingDAG = UnmarshalJSON(before[goroutines[g].id])

\* C23: the File tier does no locking and detects no lost update: when two
\* concurrent File Update calls on one identity have both read the original
\* document and their transforms succeed and keep the identity, both return
\* success, and the final document is what one call wrote from the graph it
\* had read (or an unparsable mix of two writes), so of two calls that both
\* read the original only one transform is reflected.
C23_LostUpdate ==
    AllReturned
        => \A g, h \in Goroutines :
              (/\ g # h
               /\ goroutines[g].id = goroutines[h].id
               /\ ReadOriginal(g) /\ ReadOriginal(h)
               /\ \A k \in {g, h} :
                     /\ ~Apply(goroutines[k].fn, goroutines[k].existingDAG).failed
                     /\ Apply(goroutines[k].fn, goroutines[k].existingDAG).dag.Id
                           = goroutines[k].id)
                => /\ goroutines[g].err = "nil" /\ goroutines[h].err = "nil"
                   /\ files[goroutines[g].id]
                         \in {Corrupt} \cup UNION {Marshalled(goroutines[k].updatedDAG) :
                                          k \in {x \in Goroutines :
                                                    goroutines[x].id = goroutines[g].id}}

\* two calls on one identity, one setting a new title and one adding a node,
\* both returned success and the document carries only one of the two changes
W_C23 ==
    /\ AllReturned
    /\ \E g, h \in Goroutines :
          /\ goroutines[g].id = goroutines[h].id
          /\ goroutines[g].id \in DOMAIN before
          /\ goroutines[g].fn.kind = "SetTitle"
          /\ goroutines[g].fn.n # before[goroutines[g].id].title
          /\ goroutines[h].fn.kind = "AddNode"
          /\ goroutines[g].err = "nil" /\ goroutines[h].err = "nil"
          /\ files[goroutines[g].id].ok
          /\ \/ /\ files[goroutines[g].id].title = goroutines[g].fn.n
                /\ files[goroutines[g].id].nodes = <<>>
             \/ /\ files[goroutines[g].id].title = before[goroutines[g].id].title
                /\ files[goroutines[g].id].nodes # <<>>
\* C28: when two Hybrid.Create calls for one identity run concurrently with
\* write-through enabled, at most one returns success, and if one returns
\* success then, once both have returned, the identity is in Memory and in File.
CX_C28 ==
    (AllReturned /\ writeThrough)
        => \A g, h \in Goroutines :
              (g # h /\ goroutines[g].dagObj.Id = goroutines[h].dagObj.Id)
                => /\ ~(goroutines[g].err = "nil" /\ goroutines[h].err = "nil")
                   /\ goroutines[g].err = "nil"
                        => /\ goroutines[g].dagObj.Id \in DOMAIN dags
                           /\ goroutines[g].dagObj.Id \in DOMAIN files
\* ------------------------------------------------------------ use case claims
\* C21: UpdateDAGUseCase.Execute on a target identity that is stored replaces
\* the stored graph by the payload exactly when the payload carries the
\* target identity and passes ValidateDAG, and otherwise returns an
\* InvalidCommand error and leaves the store unchanged, as it does for a
\* command without a well-formed identifier or without a payload; so every
\* graph a successful Execute stores is one the validator reports valid:
\* single root, no cycle, every next_node resolved.
C21_ExecuteValidates ==
    [][last'.op = "Execute" =>
        LET id == last'.id
            asc == Ascending(DOMAIN graph'.dag.Nodes)
            valid == IsValidDAG(graph', [nodes |-> asc, roots |-> asc,
                                         cycles |-> asc, statistics |-> asc])
        IN /\ id = 0 => (IsInvalidCommand(last'.err) /\ dags' = dags)
           /\ (id \in DOMAIN dags /\ graph'.dag.Id = id /\ valid)
                => (last'.err = "nil" /\ dags' = Put(dags, id, graph'.dag))
           /\ (id \in DOMAIN dags /\ ~(graph'.dag.Id = id /\ valid))
                => (IsInvalidCommand(last'.err) /\ dags' = dags)
           /\ (id # 0 /\ id \notin DOMAIN dags)
                => (last'.err = ErrNotFound /\ dags' = dags)
           /\ last'.err = "nil"
                => /\ dags'[id] = graph'.dag
                   /\ Cardinality(Unreferenced(dags'[id])) = 1
                   /\ ~Cyclic(dags'[id])
                   /\ \A e \in Edges(dags'[id]) : e[2] \in DOMAIN dags'[id].Nodes
    ]_vars

\* a payload with the target identity and a cycle was rejected and the stored
\* graph is the valid one an earlier Execute stored
W_C21 ==
    /\ last.op = "Execute" /\ last.err = ErrPayload
    /\ ~graph.nil /\ graph.dag.Id = last.id /\ Cyclic(graph.dag)
    /\ last.id \in DOMAIN dags
    /\ Cardinality(DOMAIN dags[last.id].Nodes) = WalkNodes

====
